---- MODULE Spec2Model ----
(***************************************************************************)
(* tockerdui: the shared state store (state.py, StateManager), its         *)
(* projection (_get_filtered_list_unlocked), the TTL cache (cache.py,      *)
(* CacheManager) and the @cached read path of the backend (backend.py).    *)
(*                                                                         *)
(* Strings that the code orders or searches (names, images, statuses,      *)
(* filter text, identity keys) are tuples of one-character strings, so     *)
(* that str comparison, str.lower() and the `in` substring test are        *)
(* computed character by character.  Strings the code only stores are      *)
(* plain TLA+ strings.                                                     *)
(***************************************************************************)
EXTENDS Integers, Sequences, FiniteSets, TLC

VARIABLES
    state,      \* StateManager._state : AppState (model.py)
    version,    \* StateManager._version
    last_call,  \* history: the mutator that ran last and what it did to version
    now,        \* the clock read by time.time()
    snapshot,   \* the AppState a caller got from get_snapshot and still holds
                \* (a list of none or one)
    aliased,    \* the kinds whose items in that snapshot are the store's objects
    cache,      \* CacheManager._cache : key -> CacheEntry
    cache_stats, \* CacheManager._stats
    cache_call, \* history: the last call on the cache, with what it found under
                \* its key and what it returned
    docker,     \* the provider: the container's status at the daemon, and the
                \* number of mutating calls it has executed
    threads,    \* the threads inside DockerBackend calls: position and locals
    screen,     \* the terminal as the foreground reads it: the page height it
                \* passes to move_selection
    lock,       \* StateManager._lock: the thread that holds it, if any
    cache_lock, \* CacheManager._lock: the thread that holds it, if any
    config,     \* config.py: what config_manager holds
    list_worker, \* ListWorker: fields, locals and position in run()
    logs_worker, \* LogsWorker: fields, locals and position in run()
    stats_worker \* StatsWorker: fields, locals and position in run()

store_vars == <<state, version, last_call>>
snap_vars == <<snapshot, aliased>>
cache_vars == <<cache, cache_stats, cache_call>>
thread_vars == <<docker, threads>>
fg_vars == <<screen, lock, cache_lock, config>>
worker_vars == <<list_worker, logs_worker, stats_worker>>

vars == <<state, version, last_call, now, snapshot, aliased, cache, cache_stats,
          cache_call, docker, threads, screen, lock, cache_lock, config, list_worker,
          logs_worker,
          stats_worker>>

----------------------------------------------------------------------------
(* Bounds of the model *)

\* a mutator call that would take the version counter past this is not made
MaxVersion == 4
\* the same cap for the calls made while a snapshot may be held
MaxSnapVersion == 3
\* the clock stops here; it counts half seconds, the unit of the TTL table
MaxTime == 4
\* a cache call that would take hits + misses + sets past this is not made
MaxCacheCalls == 4
\* start_container is called at most this many times
MaxMutations == 1
\* the version cap of the bulk selection scenario
MaxBulkVersion == 7
\* the longest list and the greatest page height of the scrolling scenario,
\* and its version cap
MaxItems == 20
MaxPage == 5
MaxScrollVersion == 7
\* the version cap of the filtering scenario
MaxFilterVersion == 4
\* the version cap of the log streaming scenario, the most lines the worker
\* keeps, and the most streams that die on their own
MaxLogsVersion == 8
MaxDeaths == 1
\* the most iterations of the list worker, and the most force_refresh calls
MaxCounter == 3
MaxRefreshes == 2
\* the most iterations of the stats worker, and of the list worker beside
\* the modal
MaxStatsLoops == 1
MaxModalTicks == 2
\* the version cap of the foreground beside the stats worker
MaxStatsVersion == 3
\* the version cap of the delete scenario
MaxDeleteVersion == 4
\* the version cap of the tab switching scenario
MaxTabVersion == 6
\* the version cap of the selected item scenario
MaxSelectedVersion == 5
\* the version cap of the metric update scenario
MaxMetricVersion == 4
\* the version cap of the filter re-clamp scenario
MaxClampVersion == 6
\* the version cap of the sort scenario
MaxSortVersion == 5
\* the number of lines read from one stream in the buffer scenario
MaxBufferReads == 1002
\* the iterations the list worker begins in the shutdown scenario
MaxStopTicks == 2

----------------------------------------------------------------------------
(* Python str, character by character *)

\* the characters of the model in code point order
CodePoints == <<"%", "-", ".", "0", "1", "2", "3", "5", "A", "B", "a", "b",
                "c", "d", "e", "g", "h", "i", "m", "n", "o", "p", "r", "s", "t",
                "u", "w", "x">>

ord(c) == CHOOSE i \in 1..Len(CodePoints) : CodePoints[i] = c

\* str.lower() on one character
lower_char(c) == CASE c = "A" -> "a" [] c = "B" -> "b" [] OTHER -> c

\* str.lower()
lower(s) == [i \in 1..Len(s) |-> lower_char(s[i])]

\* a < b on str: lexicographic by code point, a proper prefix is smaller
str_lt(a, b) ==
    \E k \in 0..Len(a) :
        /\ k <= Len(b)
        /\ \A j \in 1..k : a[j] = b[j]
        /\ \/ (k = Len(a) /\ k < Len(b))
           \/ (k < Len(a) /\ k < Len(b) /\ ord(a[k + 1]) < ord(b[k + 1]))

\* `ft in s` on str
str_in(ft, s) ==
    \E i \in 0..(Len(s) - Len(ft)) : SubSeq(s, i + 1, i + Len(ft)) = ft

----------------------------------------------------------------------------
(* model.py: the item records, as a provider fetch builds them *)

ContainerInfo(id, short_id, name, status, image, project, cpu_percent, ram_usage) ==
    [id |-> id, short_id |-> short_id, name |-> name, status |-> status,
     image |-> image, project |-> project, cpu_percent |-> cpu_percent,
     ram_usage |-> ram_usage, selected |-> FALSE]

ImageInfo(id, short_id, tags) ==
    [id |-> id, short_id |-> short_id, tags |-> tags, size_mb |-> "10.0",
     created |-> "2024-01-01", selected |-> FALSE]

VolumeInfo(name) ==
    [name |-> name, driver |-> "local", mountpoint |-> "n/a", selected |-> FALSE]

NetworkInfo(id, name) ==
    [id |-> id, name |-> name, driver |-> "bridge", subnet |-> "n/a",
     selected |-> FALSE]

ComposeInfo(name, status) ==
    [name |-> name, config_files |-> "n/a", status |-> status, selected |-> FALSE]

running == <<"r", "u", "n", "n", "i", "n", "g">>
exited == <<"e", "x", "i", "t", "e", "d">>
no_stat == <<"-", "-">>

\* what DockerBackend.get_containers can return for one container
fetched_container(id, name, status, image) ==
    ContainerInfo(id, id, name, status, image, "standalone", no_stat, "--")

ContainerPool ==
    { fetched_container(<<"c", "1">>, <<"a", "b">>, running, <<"B">>),
      fetched_container(<<"c", "1">>, <<"a", "b">>, exited, <<"B">>),
      fetched_container(<<"c", "2">>, <<"A">>, running, <<"d">>) }

ImagePool == { ImageInfo(<<"b">>, <<"b">>, << <<"d">>, <<"a", "B">> >>) }

\* a volume may carry the name of a compose project
VolumePool == { VolumeInfo(<<"B">>) }

NetworkPool == { NetworkInfo(<<"n", "1">>, <<"b">>) }

ComposePool == { ComposeInfo(<<"B">>, "running") }

\* the identity key of an item of a kind (state.py get_selected_items)
identity(tab, item) ==
    IF tab \in {"volumes", "compose"} THEN item.name ELSE item.id

\* the lists a provider fetch can return: no identity key twice
fetched_lists(pool, tab) ==
    { l \in UNION { [1..n -> pool] : n \in 0..Cardinality(pool) } :
        \A i, j \in 1..Len(l) :
            identity(tab, l[i]) = identity(tab, l[j]) => i = j }

\* (cpu, ram) pairs DockerBackend.get_container_stats can return
StatPool == { << <<"5", ".", "0", "%">>, "1.0MB" >> }

Tabs == {"containers", "images", "volumes", "networks", "compose", "stats"}

FilterTexts == { <<>>, <<"B">>, <<"x">> }

\* move_selection's delta and page_height arguments; page_height 0 stands for
\* the falsy values (None, 0) that skip the scroll rule
Deltas == {-1, 1}
PageHeights == {0, 1}

LogLists == { <<>>, <<"l1">>, <<"l1", "l2">> }
Messages == {"", "done"}
ErrorMsgs == {"boom"}
UsageTexts == {"CPU: 1.0% MEM: 20.0MB"}

----------------------------------------------------------------------------
(* state.py: the projection *)

\* get_cpu inside _get_filtered_list_unlocked: float(cpu_percent.strip('%')),
\* -1.0 when float() raises; the value is in tenths.  The strings are those of
\* get_container_stats: "--" or digits "." digit "%".
digit(c) == ord(c) - ord("0")

RECURSIVE strip_pct(_)
strip_pct(s) ==
    IF s # <<>> /\ Head(s) = "%" THEN strip_pct(Tail(s))
    ELSE IF s # <<>> /\ s[Len(s)] = "%" THEN strip_pct(SubSeq(s, 1, Len(s) - 1))
    ELSE s

RECURSIVE int_of(_)
int_of(ds) == IF ds = <<>> THEN 0 ELSE 10 * int_of(SubSeq(ds, 1, Len(ds) - 1)) + digit(ds[Len(ds)])

is_digits(ds) == ds # <<>> /\ \A i \in 1..Len(ds) : ds[i] \in {"0", "1", "2", "3", "5"}

get_cpu(x) ==
    LET t == strip_pct(x.cpu_percent)
        n == Len(t)
    IN  IF n >= 3 /\ t[n - 1] = "." /\ is_digits(SubSeq(t, 1, n - 2)) /\ is_digits(<<t[n]>>)
        THEN 10 * int_of(SubSeq(t, 1, n - 2)) + digit(t[n])
        ELSE -10

collection(st, tab) ==
    CASE tab = "containers" -> st.containers
      [] tab = "images" -> st.images
      [] tab = "volumes" -> st.volumes
      [] tab = "networks" -> st.networks
      [] tab = "compose" -> st.composes
      [] OTHER -> <<>>


\* the sort keys with cpu_percent compared as text
key_lt_cpu_as_text(key, a, b) ==
    CASE key = "name" -> str_lt(a.name, b.name)
      [] key = "status" -> str_lt(a.status, b.status)
      [] key = "cpu" -> str_lt(b.cpu_percent, a.cpu_percent)
      [] key = "id" -> str_lt(a.id, b.id)

\* the order of two items under the sort keys of _get_filtered_list_unlocked
key_lt(key, a, b) ==
    CASE key = "name" -> str_lt(a.name, b.name)
      [] key = "status" -> str_lt(a.status, b.status)
      [] key = "cpu" -> get_cpu(a) > get_cpu(b)
      [] key = "id" -> str_lt(a.id, b.id)

\* the sorted list with x put behind every item that is not greater than x
RECURSIVE insort(_, _, _)
insort(sorted, x, key) ==
    IF sorted = <<>> \/ ~key_lt(key, x, sorted[Len(sorted)])
    THEN Append(sorted, x)
    ELSE Append(insort(SubSeq(sorted, 1, Len(sorted) - 1), x, key),
                sorted[Len(sorted)])

RECURSIVE sorted_prefix(_, _, _)
sorted_prefix(items, n, key) ==
    IF n = 0 THEN <<>>
    ELSE insort(sorted_prefix(items, n - 1, key), items[n], key)

\* list.sort(key=...): stable, ascending in the order of the keys
sorted_by(items, key) == sorted_prefix(items, Len(items), key)

\* the sort step of _get_filtered_list_unlocked
sort_items(st, tab, items) ==
    IF tab = "containers"
    THEN CASE st.sort_mode = "name" -> sorted_by(items, "name")
           [] st.sort_mode = "status" -> sorted_by(items, "status")
           [] st.sort_mode = "cpu" -> sorted_by(items, "cpu")
           [] OTHER -> items
    ELSE IF "name" \in DOMAIN items[1] THEN sorted_by(items, "name")
    ELSE IF "id" \in DOMAIN items[1] THEN sorted_by(items, "id")
    ELSE items

\* the match test looking at the name only, whatever the kind
matches_name_only(tab, ft, i) ==
    IF tab \in {"containers", "volumes", "networks", "compose"}
    THEN str_in(ft, lower(i.name))
    ELSE FALSE

\* the match test of _get_filtered_list_unlocked, ft already lowered
matches(tab, ft, i) ==
    CASE tab = "containers" -> str_in(ft, lower(i.name)) \/ str_in(ft, lower(i.image))
      [] tab = "images" -> \/ str_in(ft, lower(i.short_id))
                           \/ \E t \in 1..Len(i.tags) : str_in(ft, lower(i.tags[t]))
      [] tab \in {"volumes", "networks", "compose"} -> str_in(ft, lower(i.name))
      [] OTHER -> FALSE

get_filtered_list_unlocked(st, tab) ==
    LET items == collection(st, tab)
    IN  IF items = <<>> THEN <<>>
        ELSE LET sorted == sort_items(st, tab, items)
                 ft == lower(st.filter_text)
                 match(i) == matches(tab, ft, i)
             IN  IF st.filter_text = <<>> THEN sorted
                 ELSE SelectSeq(sorted, match)

----------------------------------------------------------------------------
(* state.py: StateManager *)

\* model.py AppState()
AppState ==
    [containers |-> <<>>, images |-> <<>>, volumes |-> <<>>, networks |-> <<>>,
     composes |-> <<>>, selected_tab |-> "containers", selected_index |-> 0,
     scroll_offset |-> 0, logs |-> <<>>, message |-> "", filter_text |-> <<>>,
     is_filtering |-> FALSE, sort_mode |-> "name", update_available |-> FALSE,
     focused_pane |-> "list", logs_scroll_offset |-> 0, self_usage |-> "",
     last_error |-> "", error_timestamp |-> 0, bulk_select_mode |-> FALSE]

max(a, b) == IF a >= b THEN a ELSE b
min(a, b) == IF a <= b THEN a ELSE b

\* _inc_version, n times
inc_version(n) == version' = version + n

\* the state with the collection of a kind replaced
with_collection(st, tab, items) ==
    CASE tab = "containers" -> [st EXCEPT !.containers = items]
      [] tab = "images" -> [st EXCEPT !.images = items]
      [] tab = "volumes" -> [st EXCEPT !.volumes = items]
      [] tab = "networks" -> [st EXCEPT !.networks = items]
      [] tab = "compose" -> [st EXCEPT !.composes = items]
      [] OTHER -> st

\* the last stored item with the identity key of item (a dict keeps the last)
stored_with(old, tab, item) ==
    old[CHOOSE i \in 1..Len(old) :
            /\ identity(tab, old[i]) = identity(tab, item)
            /\ \A j \in (i + 1)..Len(old) : identity(tab, old[j]) # identity(tab, item)]

is_stored(old, tab, item) ==
    \E i \in 1..Len(old) : identity(tab, old[i]) = identity(tab, item)

\* merge_containers with the selected flag left out of stats_map
merge_containers_without_selected(old, new) ==
    [i \in 1..Len(new) |->
        IF \E k \in 1..Len(old) : old[k].id = new[i].id
        THEN LET o == old[CHOOSE k \in 1..Len(old) : old[k].id = new[i].id]
             IN  [new[i] EXCEPT !.cpu_percent = o.cpu_percent,
                                !.ram_usage = o.ram_usage]
        ELSE new[i]]

\* update_containers lines 70-73: stats_map and the copy into the new items
merge_containers(old, new) ==
    [i \in 1..Len(new) |->
        IF is_stored(old, "containers", new[i])
        THEN LET o == stored_with(old, "containers", new[i])
             IN  [new[i] EXCEPT !.cpu_percent = o.cpu_percent,
                                !.ram_usage = o.ram_usage,
                                !.selected = o.selected]
        ELSE new[i]]

\* a merge that keeps the stored items the new list does not name
merge_selection_keeping_absent(old, new, tab) ==
    [i \in 1..Len(new) |->
        IF is_stored(old, tab, new[i])
        THEN [new[i] EXCEPT !.selected = stored_with(old, tab, new[i]).selected]
        ELSE new[i]]
    \o SelectSeq(old, LAMBDA o : ~is_stored(new, tab, o))

\* update_images/volumes/networks/composes: selection_map and the copy
merge_selection(old, new, tab) ==
    [i \in 1..Len(new) |->
        IF is_stored(old, tab, new[i])
        THEN [new[i] EXCEPT !.selected = stored_with(old, tab, new[i]).selected]
        ELSE new[i]]

\* update_containers storing the fetched list as it came
update_containers_as_fetched(containers) ==
    /\ state' = [state EXCEPT !.containers = containers]
    /\ inc_version(1)

update_containers(containers) ==
    /\ state' = [state EXCEPT !.containers = merge_containers(state.containers, containers)]
    /\ inc_version(1)

\* update_container_stats bumping the version whether or not the id is stored
update_container_stats_always_bumps(container_id, cpu, ram) ==
    IF \E i \in 1..Len(state.containers) : state.containers[i].id = container_id
    THEN LET k == CHOOSE i \in 1..Len(state.containers) :
                     /\ state.containers[i].id = container_id
                     /\ \A j \in 1..(i - 1) : state.containers[j].id # container_id
         IN  /\ state' = [state EXCEPT !.containers[k].cpu_percent = cpu,
                                       !.containers[k].ram_usage = ram]
             /\ inc_version(1)
    ELSE /\ UNCHANGED state
         /\ inc_version(1)

update_container_stats(container_id, cpu, ram) ==
    IF \E i \in 1..Len(state.containers) : state.containers[i].id = container_id
    THEN LET k == CHOOSE i \in 1..Len(state.containers) :
                     /\ state.containers[i].id = container_id
                     /\ \A j \in 1..(i - 1) : state.containers[j].id # container_id
         IN  /\ state' = [state EXCEPT !.containers[k].cpu_percent = cpu,
                                       !.containers[k].ram_usage = ram]
             /\ inc_version(1)
    ELSE UNCHANGED <<state, version>>

update_images(images) ==
    /\ state' = [state EXCEPT !.images = merge_selection(state.images, images, "images")]
    /\ inc_version(1)

update_volumes(volumes) ==
    /\ state' = [state EXCEPT !.volumes = merge_selection(state.volumes, volumes, "volumes")]
    /\ inc_version(1)

update_networks(networks) ==
    /\ state' = [state EXCEPT !.networks = merge_selection(state.networks, networks, "networks")]
    /\ inc_version(1)

update_composes(composes) ==
    /\ state' = [state EXCEPT !.composes = merge_selection(state.composes, composes, "compose")]
    /\ inc_version(1)

set_logs(logs) ==
    /\ state' = [state EXCEPT !.logs = logs]
    /\ inc_version(1)

set_message(message) ==
    /\ state' = [state EXCEPT !.message = message]
    /\ inc_version(1)

set_error(error_msg) ==
    /\ state' = [state EXCEPT !.last_error = error_msg, !.error_timestamp = now]
    /\ inc_version(1)

clear_error ==
    /\ state' = [state EXCEPT !.last_error = "", !.error_timestamp = 0]
    /\ inc_version(1)

\* set_tab that leaves bulk_select_mode as it was
set_tab_keeps_bulk_mode(tab) ==
    /\ state' = [state EXCEPT !.selected_tab = tab,
                              !.selected_index = 0,
                              !.scroll_offset = 0,
                              !.filter_text = <<>>,
                              !.is_filtering = FALSE,
                              !.logs = <<"Loading...">>,
                              !.message = "",
                              !.focused_pane = "list",
                              !.logs_scroll_offset = 999999]
    /\ inc_version(1)

set_tab(tab) ==
    /\ state' = [state EXCEPT !.selected_tab = tab,
                              !.selected_index = 0,
                              !.scroll_offset = 0,
                              !.filter_text = <<>>,
                              !.is_filtering = FALSE,
                              !.logs = <<"Loading...">>,
                              !.message = "",
                              !.focused_pane = "list",
                              !.logs_scroll_offset = 999999,
                              !.bulk_select_mode = FALSE]
    /\ inc_version(1)

toggle_bulk_select_mode ==
    /\ state' = [state EXCEPT !.bulk_select_mode = ~state.bulk_select_mode]
    /\ inc_version(1)

\* item.selected = value(item) on the stored objects whose identity is in keys
assign_selected(st, tab, keys, value) ==
    LET items == collection(st, tab)
    IN  with_collection(st, tab,
            [i \in 1..Len(items) |->
                IF identity(tab, items[i]) \in keys
                THEN [items[i] EXCEPT !.selected = value[items[i].selected]]
                ELSE items[i]])

identities(tab, items) == { identity(tab, items[i]) : i \in 1..Len(items) }

toggle_item_selection ==
    LET current_list == get_filtered_list_unlocked(state, state.selected_tab)
        flipped == [selected \in BOOLEAN |-> ~selected]
    IN  IF ~state.bulk_select_mode THEN UNCHANGED <<state, version>>
        ELSE IF state.selected_index < Len(current_list)
        THEN /\ state' = assign_selected(state, state.selected_tab,
                            {identity(state.selected_tab, current_list[state.selected_index + 1])},
                            flipped)
             /\ inc_version(1)
        ELSE UNCHANGED <<state, version>>

\* select_all_items that marks every stored item of the active kind
select_all_stored_items ==
    LET yes == [selected \in BOOLEAN |-> TRUE]
    IN  /\ state' = assign_selected(state, state.selected_tab,
                        identities(state.selected_tab,
                                   collection(state, state.selected_tab)), yes)
        /\ inc_version(1)

select_all_items ==
    LET current_list == get_filtered_list_unlocked(state, state.selected_tab)
        yes == [selected \in BOOLEAN |-> TRUE]
    IN  /\ state' = assign_selected(state, state.selected_tab,
                        identities(state.selected_tab, current_list), yes)
        /\ inc_version(1)

deselect_all_items ==
    LET current_list == get_filtered_list_unlocked(state, state.selected_tab)
        no == [selected \in BOOLEAN |-> FALSE]
    IN  /\ state' = assign_selected(state, state.selected_tab,
                        identities(state.selected_tab, current_list), no)
        /\ inc_version(1)

\* the identities get_selected_items returns, in projection order
get_selected_items(st) ==
    LET current_list == get_filtered_list_unlocked(st, st.selected_tab)
        is_selected(item) == item.selected
        chosen == SelectSeq(current_list, is_selected)
    IN  [i \in 1..Len(chosen) |-> identity(st.selected_tab, chosen[i])]

toggle_focus ==
    /\ state' = [state EXCEPT !.focused_pane =
                    IF state.focused_pane = "list" THEN "details" ELSE "list"]
    /\ inc_version(1)

scroll_logs(delta, page_height) ==
    IF state.logs = <<>> THEN UNCHANGED <<state, version>>
    ELSE LET new_offset == state.logs_scroll_offset + delta
             max_offset == max(0, Len(state.logs) - page_height + 1)
         IN  /\ state' = [state EXCEPT !.logs_scroll_offset = max(0, min(new_offset, max_offset))]
             /\ inc_version(1)

set_filtering(active) ==
    /\ state' = [state EXCEPT !.is_filtering = active]
    /\ inc_version(1)

\* the re-clamp of set_filter_text, lines 255-257
clamp_index(st) ==
    LET current_list == get_filtered_list_unlocked(st, st.selected_tab)
    IN  IF st.selected_index >= Len(current_list)
        THEN [st EXCEPT !.selected_index = max(0, Len(current_list) - 1)]
        ELSE st

\* set_filter_text that keeps the filter when the new text is empty
set_filter_text_unless_empty(text) ==
    /\ state' = IF text = <<>> THEN clamp_index(state)
                ELSE clamp_index([state EXCEPT !.filter_text = text])
    /\ inc_version(1)

set_filter_text(text) ==
    /\ state' = clamp_index([state EXCEPT !.filter_text = text])
    /\ inc_version(1)

cycle_sort_mode ==
    /\ state' = [state EXCEPT !.sort_mode =
                    CASE state.sort_mode = "name" -> "status"
                      [] state.sort_mode = "status" -> "cpu"
                      [] state.sort_mode = "cpu" -> "name"
                      [] OTHER -> "name"]
    /\ inc_version(1)

\* the scroll rule with the page taken one row taller at its lower edge
scrolled_one_row_late(st, page_height) ==
    IF page_height = 0 THEN st
    ELSE IF st.selected_index < st.scroll_offset
    THEN [st EXCEPT !.scroll_offset = st.selected_index]
    ELSE IF st.selected_index > st.scroll_offset + page_height
    THEN [st EXCEPT !.scroll_offset = st.selected_index - page_height + 1]
    ELSE st

\* the scroll rule of move_selection, lines 340-344
scrolled(st, page_height) ==
    IF page_height = 0 THEN st
    ELSE IF st.selected_index < st.scroll_offset
    THEN [st EXCEPT !.scroll_offset = st.selected_index]
    ELSE IF st.selected_index >= st.scroll_offset + page_height
    THEN [st EXCEPT !.scroll_offset = st.selected_index - page_height + 1]
    ELSE st

\* move_selection with the second _inc_version one block further out
move_selection_bumps_unmoved(delta, page_height) ==
    LET current_list_len == Len(get_filtered_list_unlocked(state, state.selected_tab))
        new_idx == max(0, min(state.selected_index + delta, current_list_len - 1))
        moved == [state EXCEPT !.selected_index = new_idx]
        cleared == IF state.selected_tab = "containers"
                   THEN [moved EXCEPT !.logs = <<"Loading...">>,
                                      !.logs_scroll_offset = 999999]
                   ELSE moved
    IN  IF current_list_len > 0
        THEN IF new_idx # state.selected_index
             THEN /\ state' = scrolled(cleared, page_height)
                  /\ inc_version(2)
             ELSE /\ UNCHANGED state
                  /\ inc_version(1)
        ELSE /\ state' = [state EXCEPT !.selected_index = 0]
             /\ UNCHANGED version

move_selection(delta, page_height) ==
    LET current_list_len == Len(get_filtered_list_unlocked(state, state.selected_tab))
        new_idx == max(0, min(state.selected_index + delta, current_list_len - 1))
        moved == [state EXCEPT !.selected_index = new_idx]
        cleared == IF state.selected_tab = "containers"
                   THEN [moved EXCEPT !.logs = <<"Loading...">>,
                                      !.logs_scroll_offset = 999999]
                   ELSE moved
    IN  IF current_list_len > 0
        THEN IF new_idx # state.selected_index
             THEN /\ state' = scrolled(cleared, page_height)
                  /\ inc_version(2)
             ELSE UNCHANGED <<state, version>>
        ELSE /\ state' = [state EXCEPT !.selected_index = 0]
             /\ UNCHANGED version

\* get_selected_item_id indexing the stored list instead of its projection
get_selected_item_id_of_stored_list(st) ==
    LET current_list == collection(st, st.selected_tab)
    IN  IF st.selected_index < Len(current_list) /\ st.selected_tab # "stats"
        THEN <<identity(st.selected_tab, current_list[st.selected_index + 1])>>
        ELSE <<>>

\* an optional: None is <<>>
get_selected_item_id(st) ==
    LET current_list == get_filtered_list_unlocked(st, st.selected_tab)
    IN  IF st.selected_index < Len(current_list) /\ st.selected_tab # "stats"
        THEN <<identity(st.selected_tab, current_list[st.selected_index + 1])>>
        ELSE <<>>

update_self_usage(usage) ==
    /\ state' = [state EXCEPT !.self_usage = usage]
    /\ inc_version(1)

set_update_available(available) ==
    /\ state' = [state EXCEPT !.update_available = available]
    /\ inc_version(1)

----------------------------------------------------------------------------
(* The store under its callers: the foreground and the three workers call  *)
(* the mutators in any order; each call runs under StateManager._lock, so  *)
(* a call is one step.                                                     *)

\* a mutator was called: the history of what it did to the version counter
\* and whether any field of the state differs after it
recorded(op) ==
    last_call' = [op |-> op, bump |-> version' - version,
                  changed |-> state' # state]

history(op) ==
    /\ version' <= MaxVersion
    /\ recorded(op)

\* a call while nobody holds a snapshot
called(op) ==
    /\ history(op)
    /\ UNCHANGED <<now, snap_vars, cache_vars, thread_vars, fg_vars, worker_vars>>

\* the threads that call the backend: the list poller and the foreground
Threads == {"ListWorker", "main"}

\* a thread outside any backend call: no call begun, nothing returned yet
idle_thread ==
    [pc |-> "idle", result |-> <<>>, begun_after |-> 0, returned |-> <<>>]

\* ListWorker.__init__, and run() not yet entered: counter and cleanup_counter
\* are the locals of run().  The other fields observe the run: refreshes counts
\* the force_refresh calls, age the iterations begun since the last of them,
\* fetched_since the kinds one iteration has fetched since that call,
\* iter_kinds the kinds the current iteration has fetched and iter_cleared
\* whether it has cleared the flag, update_checks the check_for_updates calls.
ListWorker ==
    [running |-> TRUE, force_refresh_flag |-> FALSE, counter |-> 0,
     cleanup_counter |-> 0, pc |-> "start",
     refreshes |-> 0, age |-> 0, fetched_since |-> {}, iter_kinds |-> {},
     iter_cleared |-> FALSE, update_checks |-> 0]

\* LogsWorker.__init__, and run() at the head of its loop.  process is the
\* position in streams of the Popen object held; streams are the Popen objects
\* get_log_stream_process has returned, each with the container it follows,
\* its state, whether terminate() was called on it and how many lines were
\* read from it; tab and target_id are the locals of run()
LogsWorker ==
    [running |-> TRUE, current_container_id |-> <<>>, process |-> <<>>,
     log_buffer |-> <<>>, pc |-> "loop", tab |-> "", target_id |-> <<>>,
     streams |-> <<>>, deaths |-> 0]

\* StatsWorker.__init__, and run() at the head of its loop: todo is what is
\* left of running_containers, loops counts the iterations made.  The other
\* fields observe the loop in progress: usages counts its update_self_usage
\* calls, stored_running is the ids of the running containers the store held
\* when the snapshot was taken, and fetched the ids whose stats were fetched
\* and applied.
StatsWorker ==
    [running |-> TRUE, pc |-> "usage", todo |-> <<>>, loops |-> 0,
     usages |-> 0, stored_running |-> {}, fetched |-> {}]

\* what a poll of a @cached kind passes to update_*: a list just fetched, or
\* the cached list again, which is the list object the store already holds
polled(pool, tab) == fetched_lists(pool, tab) \cup {collection(state, tab)}

\* StateManager(), CacheManager() and the three workers constructed, none
\* started
Constructed ==
    /\ state = AppState
    /\ version = 0
    /\ last_call = [op |-> "__init__", bump |-> 0, changed |-> FALSE]
    /\ now = 1
    /\ snapshot = <<>>
    /\ aliased = {}
    /\ cache = <<>>
    /\ cache_stats = [hits |-> 0, misses |-> 0, sets |-> 0, evictions |-> 0]
    /\ cache_call = [op |-> "__init__", key |-> <<>>, value |-> <<>>,
                     before |-> <<>>, result |-> <<>>]
    /\ docker = [status |-> exited, mutations |-> 0]
    /\ threads = [t \in Threads |-> idle_thread]
    /\ lock = <<>>
    /\ cache_lock = <<>>
    /\ list_worker = ListWorker
    /\ logs_worker = LogsWorker
    /\ stats_worker = StatsWorker

\* config.py 71: DockerConfig.auto_update
DefaultConfig == [auto_update |-> TRUE]

\* the terminal at its least height: max(1, split_y - 2) is 1
Init ==
    /\ Constructed
    /\ screen = [page_height |-> 1, modal |-> "none"]
    /\ config = DefaultConfig

Next ==
    \/ \E l \in polled(ContainerPool, "containers") :
            update_containers(l) /\ called("update_containers")
    \/ \E l \in fetched_lists(ImagePool, "images") :
            update_images(l) /\ called("update_images")
    \/ \E l \in polled(VolumePool, "volumes") :
            update_volumes(l) /\ called("update_volumes")
    \/ \E l \in polled(NetworkPool, "networks") :
            update_networks(l) /\ called("update_networks")
    \/ \E l \in polled(ComposePool, "compose") :
            update_composes(l) /\ called("update_composes")
    \/ \E c \in ContainerPool, m \in StatPool :
            update_container_stats(c.id, m[1], m[2]) /\ called("update_container_stats")
    \/ \E t \in Tabs : set_tab(t) /\ called("set_tab")
    \/ toggle_bulk_select_mode /\ called("toggle_bulk_select_mode")
    \/ toggle_item_selection /\ called("toggle_item_selection")
    \/ select_all_items /\ called("select_all_items")
    \/ deselect_all_items /\ called("deselect_all_items")
    \/ \E t \in FilterTexts : set_filter_text(t) /\ called("set_filter_text")
    \/ cycle_sort_mode /\ called("cycle_sort_mode")
    \/ \E d \in Deltas, h \in PageHeights :
            move_selection(d, h) /\ called("move_selection")

Spec == Init /\ [][Next]_vars

----------------------------------------------------------------------------
(* The claims about the store *)

current_projection == get_filtered_list_unlocked(state, state.selected_tab)

\* C1: whenever the filtered projection of the active tab is non-empty,
\* selected_index is a position of it.
C1_SelectedIndexInBounds ==
    Len(current_projection) > 0 =>
        state.selected_index \in 0..(Len(current_projection) - 1)

C3_VersionFollowsChanges ==
    /\ last_call.bump >= 0
    /\ last_call.changed => last_call.bump >= 1
    /\ last_call.op \in {"update_containers", "toggle_focus", "set_tab"}
            => last_call.bump = 1

\* the fields a replace of a kind does not fetch
kept_fields(tab, item) ==
    IF tab = "containers" THEN <<item.cpu_percent, item.ram_usage, item.selected>>
    ELSE <<item.selected>>

replace_keeps(op, tab) ==
    last_call'.op = op =>
        \A n \in 1..Len(collection(state', tab)) :
            \A o \in 1..Len(collection(state, tab)) :
                identity(tab, collection(state, tab)[o])
                        = identity(tab, collection(state', tab)[n])
                    => kept_fields(tab, collection(state', tab)[n])
                        = kept_fields(tab, collection(state, tab)[o])

\* C4: an item whose identity key is stored before a replace and is in the
\* list passed to it keeps cpu_percent, ram_usage and selected (containers),
\* selected (the other kinds).
C4_ReplaceKeepsUnfetchedFields ==
    [][/\ replace_keeps("update_containers", "containers")
       /\ replace_keeps("update_images", "images")
       /\ replace_keeps("update_volumes", "volumes")
       /\ replace_keeps("update_networks", "networks")
       /\ replace_keeps("update_composes", "compose")]_vars

\* a replace after which a container carries a measurement and a selection
C4_Witness ==
    /\ last_call.op = "update_containers"
    /\ \E i \in 1..Len(state.containers) :
            /\ state.containers[i].cpu_percent # no_stat
            /\ state.containers[i].selected
            /\ state.containers[i].status = exited

\* C11: toggle_item_selection, select_all_items and deselect_all_items change
\* nothing but the selected flag of items of the active tab's filtered
\* projection: items of the active kind that the filter hides and the items of
\* every other kind stay as they were, and get_selected_items returns only
\* identities of items of the projection.
C11_SelectionStaysInProjection ==
    [][last_call'.op \in {"toggle_item_selection", "select_all_items", "deselect_all_items"} =>
        LET tab == state.selected_tab
            old == collection(state, tab)
            new == collection(state', tab)
            shown == identities(tab, current_projection)
        IN  /\ \A t \in Tabs \ {tab} : collection(state', t) = collection(state, t)
            /\ Len(new) = Len(old)
            /\ \A i \in 1..Len(old) :
                    /\ [new[i] EXCEPT !.selected = old[i].selected] = old[i]
                    /\ identity(tab, old[i]) \notin shown => new[i] = old[i]
            /\ \A i \in 1..Len(get_selected_items(state')) :
                    get_selected_items(state')[i] \in shown]_vars

\* select_all_items under a filter that shows one container and hides another
C11_Witness ==
    /\ last_call.op = "select_all_items"
    /\ state.selected_tab = "containers"
    /\ state.filter_text # <<>>
    /\ \E i, j \in 1..Len(state.containers) :
            /\ state.containers[i].selected
            /\ ~state.containers[j].selected
            /\ identity("containers", state.containers[j])
                    \notin identities("containers", current_projection)

----------------------------------------------------------------------------
(* Bulk selection across tab switches: the foreground selects on one tab,  *)
(* switches to another and selects there, while the pollers deliver        *)
(* containers, volumes and compose projects, each kind until the store     *)
(* holds items of it.                                                      *)

bulk_called(op) ==
    /\ version' <= MaxBulkVersion
    /\ recorded(op)
    /\ UNCHANGED <<now, snap_vars, cache_vars, thread_vars, fg_vars, worker_vars>>

NextBulk ==
    \/ \E l \in fetched_lists(ContainerPool, "containers") :
            state.containers = <<>> /\ update_containers(l) /\ bulk_called("update_containers")
    \/ \E l \in fetched_lists(VolumePool, "volumes") :
            state.volumes = <<>> /\ update_volumes(l) /\ bulk_called("update_volumes")
    \/ \E l \in fetched_lists(ComposePool, "compose") :
            state.composes = <<>> /\ update_composes(l) /\ bulk_called("update_composes")
    \/ \E t \in Tabs : set_tab(t) /\ bulk_called("set_tab")
    \/ toggle_bulk_select_mode /\ bulk_called("toggle_bulk_select_mode")
    \/ select_all_items /\ bulk_called("select_all_items")
    \/ \E t \in FilterTexts : set_filter_text(t) /\ bulk_called("set_filter_text")

SpecBulk == Init /\ [][NextBulk]_vars

\* the set of the entries of a list
elements(l) == { l[i] : i \in 1..Len(l) }

\* C12 as stated: after select_all_items, get_selected_items returns exactly
\* the identities of the filtered projection; a set_tab to another kind right
\* after it leaves bulk_select_mode False, changes no selected flag, and
\* get_selected_items on the new tab has none of the identities that were
\* selected on the tab left.
C12_TabSwitchSharesNoSelection ==
    [][/\ last_call'.op = "select_all_items" =>
            elements(get_selected_items(state'))
                = identities(state'.selected_tab,
                             get_filtered_list_unlocked(state', state'.selected_tab))
       /\ (last_call.op = "select_all_items" /\ last_call'.op = "set_tab"
                /\ state'.selected_tab # state.selected_tab) =>
            /\ ~state'.bulk_select_mode
            /\ \A t \in Tabs : collection(state', t) = collection(state, t)
            /\ elements(get_selected_items(state'))
                    \cap elements(get_selected_items(state)) = {}]_vars

\* C12 amended: after select_all_items, get_selected_items returns exactly the
\* identities of the filtered projection; a set_tab to another kind right
\* after it leaves bulk_select_mode False and changes no selected flag, so
\* get_selected_items on the new tab returns the identities of the items of
\* the new kind that were selected before the switch, and no others.
C12_TabSwitchSelectsNothing ==
    [][/\ last_call'.op = "select_all_items" =>
            elements(get_selected_items(state'))
                = identities(state'.selected_tab,
                             get_filtered_list_unlocked(state', state'.selected_tab))
       /\ (last_call.op = "select_all_items" /\ last_call'.op = "set_tab"
                /\ state'.selected_tab # state.selected_tab) =>
            /\ ~state'.bulk_select_mode
            /\ \A t \in Tabs : collection(state', t) = collection(state, t)
            /\ LET tab == state'.selected_tab
                   items == collection(state, tab)
               IN  elements(get_selected_items(state'))
                        = { identity(tab, items[i]) :
                                i \in {j \in 1..Len(items) : items[j].selected} }]_vars

\* a switch away from a tab where select_all_items has just selected the one
\* container the filter shows and left the hidden one unselected
C12_Witness ==
    /\ last_call.op = "set_tab"
    /\ state.selected_tab # "containers"
    /\ ~state.bulk_select_mode
    /\ get_selected_items(state) = <<>>
    /\ Len(state.containers) = 2
    /\ \E i, j \in 1..2 : state.containers[i].selected /\ ~state.containers[j].selected

----------------------------------------------------------------------------
(* Scrolling: a list of containers is delivered once, then the foreground  *)
(* moves the selection with the page height of its terminal, which keeps   *)
(* its size.                                                               *)

\* the i-th of the container names, which ascend with i
item_name(i) ==
    <<"c", CodePoints[((i - 1) \div 5) + 1], CodePoints[((i - 1) % 5) + 4]>>

\* a provider list of n containers
listed(n) ==
    [i \in 1..n |-> fetched_container(item_name(i), item_name(i), running, <<"x">>)]

\* deltas of the key bindings and of the tests, either sign, and none
ScrollDeltas == {-100, -10, -2, -1, 0, 1, 2, 10, 100}

InitScroll ==
    /\ Constructed
    /\ \E h \in 1..MaxPage : screen = [page_height |-> h, modal |-> "none"]
    /\ config = DefaultConfig

scroll_called(op) ==
    /\ version' <= MaxScrollVersion
    /\ recorded(op)
    /\ UNCHANGED <<now, snap_vars, cache_vars, thread_vars, fg_vars, worker_vars>>

NextScroll ==
    \/ \E n \in 1..MaxItems :
            /\ state.containers = <<>>
            /\ update_containers(listed(n))
            /\ scroll_called("update_containers")
    \/ \E d \in ScrollDeltas :
            /\ state.containers # <<>>
            /\ move_selection(d, screen.page_height)
            /\ scroll_called("move_selection")

SpecScroll == InitScroll /\ [][NextScroll]_vars

\* C13: on a list of fixed length L >= 1 and with one page height P >= 1,
\* after every move_selection 0 <= selected_index <= L - 1 and
\* scroll_offset <= selected_index <= scroll_offset + P - 1, and the offset
\* is the index when the index is above the page, index - P + 1 when it is
\* below the page, and unchanged otherwise.
C13_SelectionStaysOnPage ==
    [][last_call'.op = "move_selection" =>
        LET L == Len(state'.containers)
            P == screen'.page_height
            index == state'.selected_index
            offset == state'.scroll_offset
        IN  /\ L = Len(state.containers) /\ P = screen.page_height
            /\ 0 <= index /\ index <= L - 1
            /\ offset <= index /\ index <= offset + P - 1
            /\ offset = IF index < state.scroll_offset THEN index
                        ELSE IF index >= state.scroll_offset + P THEN index - P + 1
                        ELSE state.scroll_offset]_vars

\* L = 20 and P = 5: three moves from the top have put the index at 5 and the
\* offset at 1
C13_Witness ==
    /\ last_call.op = "move_selection"
    /\ Len(state.containers) = 20
    /\ screen.page_height = 5
    /\ version = 7
    /\ state.selected_index = 5
    /\ state.scroll_offset = 1

----------------------------------------------------------------------------
(* Filtering: each kind is delivered until the store holds items of it,    *)
(* and the foreground switches tabs, cycles the sort mode and types and    *)
(* clears filter texts.                                                    *)

\* the containers of test_filtering_logic
named_containers ==
    << fetched_container(<<"1">>, <<"w", "e", "b", "-", "a", "p", "p">>, running,
                         <<"n", "g", "i", "n", "x">>),
       fetched_container(<<"2">>, <<"d", "b", "-", "m", "o", "n", "g", "o">>, running,
                         <<"m", "o", "n", "g", "o">>),
       fetched_container(<<"3">>, <<"c", "a", "c", "h", "e", "-", "r", "e", "d", "i", "s">>,
                         running, <<"r", "e", "d", "i", "s">>) >>

SearchTexts == { <<>>, <<"B">>, <<"d">>, <<"x">>, <<"w", "e", "b">> }

\* the history of a call, and with a set_filter_text call its argument and
\* the projection as it was when the filter was last empty, as long as only
\* set_filter_text calls have been made since
recorded_filter(op, text) ==
    last_call' = [op |-> op, bump |-> version' - version, changed |-> state' # state,
                  text |-> text,
                  unfiltered |->
                    IF op # "set_filter_text" THEN <<>>
                    ELSE IF state.filter_text = <<>>
                    THEN <<get_filtered_list_unlocked(state, state.selected_tab)>>
                    ELSE IF last_call.op = "set_filter_text" THEN last_call.unfiltered
                    ELSE <<>>]

filter_called(op, text) ==
    /\ version' <= MaxFilterVersion
    /\ recorded_filter(op, text)
    /\ UNCHANGED <<now, snap_vars, cache_vars, thread_vars, fg_vars, worker_vars>>

NextFilter ==
    \/ \E l \in fetched_lists(ContainerPool, "containers") \cup {named_containers} :
            state.containers = <<>> /\ update_containers(l) /\ filter_called("update_containers", <<>>)
    \/ \E l \in fetched_lists(ImagePool, "images") :
            state.images = <<>> /\ update_images(l) /\ filter_called("update_images", <<>>)
    \/ \E l \in fetched_lists(VolumePool, "volumes") :
            state.volumes = <<>> /\ update_volumes(l) /\ filter_called("update_volumes", <<>>)
    \/ \E l \in fetched_lists(NetworkPool, "networks") :
            state.networks = <<>> /\ update_networks(l) /\ filter_called("update_networks", <<>>)
    \/ \E l \in fetched_lists(ComposePool, "compose") :
            state.composes = <<>> /\ update_composes(l) /\ filter_called("update_composes", <<>>)
    \/ \E t \in Tabs : set_tab(t) /\ filter_called("set_tab", <<>>)
    \/ cycle_sort_mode /\ filter_called("cycle_sort_mode", <<>>)
    \/ \E t \in SearchTexts : set_filter_text(t) /\ filter_called("set_filter_text", t)

SpecFilter == Init /\ [][NextFilter]_vars

\* C14: when a filter text is set and then cleared, with set_filter_text calls
\* only in between, the projection is the one from before the filter was set:
\* the same items in the same order.
C14_FilterRoundTrip ==
    (last_call.op = "set_filter_text" /\ last_call.text = <<>>
        /\ last_call.unfiltered # <<>>)
            => current_projection = last_call.unfiltered[1]

\* a filter that hid two of three containers has just been cleared
C14_Witness ==
    /\ last_call.op = "set_filter_text"
    /\ last_call.changed
    /\ last_call.text = <<>>
    /\ last_call.unfiltered # <<>>
    /\ Len(current_projection) = 3
    /\ version = 3

\* the sorted collection of the active kind
sorted_collection ==
    LET items == collection(state, state.selected_tab)
    IN  IF items = <<>> THEN <<>> ELSE sort_items(state, state.selected_tab, items)

\* text occurs in s, letter case aside
occurs(text, s) == str_in(lower(text), lower(s))

\* C15: with a non-empty filter text the projection holds exactly the items
\* of the sorted collection in which the text occurs, letter case aside, in
\* the name or the image (containers), the short_id or a tag (images), the
\* name (volumes, networks, compose), in sorted order; with an empty text it
\* is the sorted collection.
C15_FilterKeepsMatches ==
    LET tab == state.selected_tab
        text == state.filter_text
        wanted(i) ==
            CASE tab = "containers" -> occurs(text, i.name) \/ occurs(text, i.image)
              [] tab = "images" -> \/ occurs(text, i.short_id)
                                   \/ \E t \in 1..Len(i.tags) : occurs(text, i.tags[t])
              [] OTHER -> occurs(text, i.name)
    IN  IF text = <<>> THEN current_projection = sorted_collection
        ELSE current_projection = SelectSeq(sorted_collection, wanted)

\* the filter web shows web-app alone of web-app, db-mongo and cache-redis
C15_Witness ==
    /\ state.filter_text = <<"w", "e", "b">>
    /\ state.containers = named_containers
    /\ Len(current_projection) = 1
    /\ current_projection[1].name = <<"w", "e", "b", "-", "a", "p", "p">>

----------------------------------------------------------------------------
(* cache.py: CacheManager.  Every method runs under CacheManager._lock, so *)
(* a call is one step.  Times and TTLs are in half seconds.  An optional   *)
(* value is a list of none or one: <<>> is None.                           *)

k_containers == <<"c", "o", "n", "t", "a", "i", "n", "e", "r", "s">>
k_images == <<"i", "m", "a", "g", "e", "s">>
k_volumes == <<"v", "o", "l", "u", "m", "e", "s">>
k_networks == <<"n", "e", "t", "w", "o", "r", "k", "s">>
k_composes == <<"c", "o", "m", "p", "o", "s", "e", "s">>
k_container_stats == <<"c", "o", "n", "t", "a", "i", "n", "e", "r", "_", "s", "t", "a", "t", "s">>
k_logs == <<"l", "o", "g", "s">>
k_self_usage == <<"s", "e", "l", "f", "_", "u", "s", "a", "g", "e">>

\* lines 60-69, in the dict's order
ttl_config ==
    << <<k_containers, 2>>, <<k_images, 10>>, <<k_volumes, 20>>, <<k_networks, 20>>,
       <<k_composes, 4>>, <<k_container_stats, 4>>, <<k_logs, 1>>, <<k_self_usage, 2>> >>

\* str.startswith
startswith(s, prefix) ==
    Len(prefix) <= Len(s) /\ SubSeq(s, 1, Len(prefix)) = prefix

CacheEntry(value, timestamp, ttl) ==
    [value |-> value, timestamp |-> timestamp, ttl |-> ttl]

\* CacheEntry.is_expired with the boundary age counted as expired
is_expired_at_ttl(entry, t) == t - entry.timestamp >= entry.ttl

\* CacheEntry.is_expired at time t
is_expired(entry, t) == t - entry.timestamp > entry.ttl

\* the dict without some keys
without(c, keys) == [k \in DOMAIN c \ keys |-> c[k]]

\* the dict with c[key] = entry
with_entry(c, key, entry) ==
    [k \in DOMAIN c \cup {key} |-> IF k = key THEN entry ELSE c[k]]

\* what the dict holds under key, as an optional
entry_of(c, key) == IF key \in DOMAIN c THEN <<c[key]>> ELSE <<>>

counted(stat) == [cache_stats EXCEPT ![stat] = @ + 1]

cache_calls_left ==
    cache_stats.hits + cache_stats.misses + cache_stats.sets < MaxCacheCalls

CacheManager_get(key) ==
    /\ cache_calls_left
    /\ IF key \notin DOMAIN cache
       THEN /\ cache_stats' = counted("misses")
            /\ cache' = cache
            /\ cache_call' = [op |-> "get", key |-> key, value |-> <<>>,
                              before |-> <<>>, result |-> <<>>]
       ELSE IF is_expired(cache[key], now)
       THEN /\ cache' = without(cache, {key})
            /\ cache_stats' = [cache_stats EXCEPT !.misses = @ + 1, !.evictions = @ + 1]
            /\ cache_call' = [op |-> "get", key |-> key, value |-> <<>>,
                              before |-> <<cache[key]>>, result |-> <<>>]
       ELSE /\ cache_stats' = counted("hits")
            /\ cache' = cache
            /\ cache_call' = [op |-> "get", key |-> key, value |-> <<>>,
                              before |-> <<cache[key]>>, result |-> <<cache[key].value>>]

\* the TTL of a new entry with `if not ttl` in place of `if ttl is None`
resolve_ttl_zero_is_unset(key, ttl_override) ==
    IF ttl_override # <<>> /\ ttl_override # <<0>> THEN ttl_override[1]
    ELSE IF \E i \in 1..Len(ttl_config) : startswith(key, ttl_config[i][1])
    THEN ttl_config[CHOOSE i \in 1..Len(ttl_config) :
                        /\ startswith(key, ttl_config[i][1])
                        /\ \A j \in 1..(i - 1) : ~startswith(key, ttl_config[j][1])][2]
    ELSE 4

\* lines 92-99: the TTL of a new entry
resolve_ttl(key, ttl_override) ==
    IF ttl_override # <<>> THEN ttl_override[1]
    ELSE IF \E i \in 1..Len(ttl_config) : startswith(key, ttl_config[i][1])
    THEN ttl_config[CHOOSE i \in 1..Len(ttl_config) :
                        /\ startswith(key, ttl_config[i][1])
                        /\ \A j \in 1..(i - 1) : ~startswith(key, ttl_config[j][1])][2]
    ELSE 4

\* CacheManager.set that keeps an entry already stored under the key
set_keeps_stored_entry(key, value, ttl_override) ==
    /\ cache_calls_left
    /\ cache' = IF key \in DOMAIN cache THEN cache
                ELSE with_entry(cache, key,
                        CacheEntry(value, now, resolve_ttl(key, ttl_override)))
    /\ cache_stats' = counted("sets")
    /\ cache_call' = [op |-> "set", key |-> key, value |-> <<value>>,
                      before |-> entry_of(cache, key), result |-> <<>>]

CacheManager_set(key, value, ttl_override) ==
    /\ cache_calls_left
    /\ cache' = with_entry(cache, key,
                    CacheEntry(value, now, resolve_ttl(key, ttl_override)))
    /\ cache_stats' = counted("sets")
    /\ cache_call' = [op |-> "set", key |-> key, value |-> <<value>>,
                      before |-> entry_of(cache, key), result |-> <<>>]

\* CacheManager.invalidate that clears the cache whatever the pattern
invalidate_everything(pattern) ==
    /\ cache' = <<>>
    /\ cache_call' = [op |-> "invalidate", key |-> pattern, value |-> <<>>,
                      before |-> <<>>, result |-> <<>>]
    /\ UNCHANGED cache_stats

\* pattern: <<>> for None, else <<the prefix>>
CacheManager_invalidate(pattern) ==
    /\ cache' = IF pattern = <<>> THEN <<>>
                ELSE without(cache, {k \in DOMAIN cache : startswith(k, pattern[1])})
    /\ cache_call' = [op |-> "invalidate", key |-> pattern, value |-> <<>>,
                      before |-> <<>>, result |-> <<>>]
    /\ UNCHANGED cache_stats

\* time passes
Tick ==
    /\ now < MaxTime
    /\ now' = now + 1
    /\ cache_call' = [op |-> "tick", key |-> <<>>, value |-> <<>>,
                      before |-> <<>>, result |-> <<>>]
    /\ UNCHANGED <<cache, cache_stats, store_vars, snap_vars, thread_vars, fg_vars,
                   worker_vars>>

\* the keys @cached builds for get_containers() and get_container_stats("c1")
CacheKeys ==
    { k_containers \o <<":">>,
      k_container_stats \o <<":", "c", "1">> }

\* cached results: an empty list and a list of one container
CacheValues == { <<>>, <<fetched_container(<<"c", "1">>, <<"a", "b">>, running, <<"B">>)>> }

TtlOverrides == { <<>>, <<0>> }

\* invalidate's argument: None, two resource kinds, and a text that occurs in
\* a key without starting it
Patterns == { <<>>, <<k_containers>>, <<k_container_stats>>,
              << <<"s", "t", "a", "t", "s">> >> }

cache_only == UNCHANGED <<now, store_vars, snap_vars, thread_vars, fg_vars, worker_vars>>

NextCache ==
    \/ \E k \in CacheKeys : CacheManager_get(k) /\ cache_only
    \/ \E k \in CacheKeys, v \in CacheValues, o \in TtlOverrides :
            CacheManager_set(k, v, o) /\ cache_only
    \/ \E p \in Patterns : CacheManager_invalidate(p) /\ cache_only
    \/ Tick

SpecCache == Init /\ [][NextCache]_vars

\* C5: get reports a miss for an entry whose age exceeds its TTL and removes
\* it; for an entry whose age is at most its TTL it returns the stored value
\* and leaves the entry in place.
C5_GetHonoursTtl ==
    (cache_call.op = "get" /\ cache_call.before # <<>>) =>
        LET e == cache_call.before[1]
            k == cache_call.key
        IN  IF now - e.timestamp > e.ttl
            THEN cache_call.result = <<>> /\ k \notin DOMAIN cache
            ELSE cache_call.result = <<e.value>> /\ k \in DOMAIN cache /\ cache[k] = e

\* both cases of C5 have happened: a get at the boundary age that hit
C5_Witness ==
    /\ cache_call.op = "get"
    /\ cache_call.before # <<>>
    /\ now - cache_call.before[1].timestamp = cache_call.before[1].ttl
    /\ cache_call.before[1].ttl > 0
    /\ cache_call.result # <<>>
    /\ cache_stats.evictions > 0

\* what get(key) returns in the current state
get_now(key) ==
    IF key \in DOMAIN cache /\ ~(now - cache[key].timestamp > cache[key].ttl)
    THEN <<cache[key].value>>
    ELSE <<>>

\* C6: right after set(k, v), get(k) returns v, also when k held another
\* value before: the entry is overwritten and its timestamp is the time of
\* the set.
C6_SetThenGet ==
    cache_call.op = "set" =>
        /\ get_now(cache_call.key) = cache_call.value
        /\ cache[cache_call.key].timestamp = now

\* a second set of a key, with another value, at a later time
C6_Witness ==
    /\ cache_call.op = "set"
    /\ cache_call.before # <<>>
    /\ <<cache_call.before[1].value>> # cache_call.value
    /\ cache_call.before[1].timestamp < now

\* C7: invalidate(prefix) removes exactly the entries whose key starts with
\* prefix and leaves the others as they were, invalidate() removes every
\* entry, and a get of a removed key right after the call is a miss.
C7_InvalidateRemovesPrefix ==
    [][cache_call'.op = "invalidate" =>
        LET p == cache_call'.key
            gone == IF p = <<>> THEN DOMAIN cache
                    ELSE {k \in DOMAIN cache :
                            /\ Len(k) >= Len(p[1])
                            /\ \A i \in 1..Len(p[1]) : k[i] = p[1][i]}
        IN  /\ DOMAIN cache' = DOMAIN cache \ gone
            /\ \A k \in DOMAIN cache' : cache'[k] = cache[k]
            /\ \A k \in gone : k \notin DOMAIN cache']_vars

\* an invalidate by prefix that removed an entry and left another
C7_Witness ==
    /\ cache_call.op = "invalidate"
    /\ cache_call.key = <<k_containers>>
    /\ cache_stats.sets = 2
    /\ DOMAIN cache = {k_container_stats \o <<":", "c", "1">>}


----------------------------------------------------------------------------
(* cache.py: the @cached wrapper around DockerBackend.get_containers, and   *)
(* backend.py: start_container, run by two threads.  The wrapper holds no   *)
(* lock between its get, the provider call and its set, so each of the      *)
(* three is a step of its own; so are the two statements of                 *)
(* start_container.                                                          *)

\* f"{key_prefix}:{args[0] if args else ''}" for get_containers()
cache_key == k_containers \o <<":">>

\* mutating backend calls that have returned
returned_mutations ==
    docker.mutations - (IF threads["main"].pc = "started" THEN 1 ELSE 0)

\* client.containers.list(all=True) as get_containers builds its result; the
\* list remembers how many mutations the daemon had applied when it was taken
provider_list ==
    [list |-> <<fetched_container(<<"c", "1">>, <<"a", "b">>, docker.status, <<"B">>)>>,
     fetched_at |-> docker.mutations]

thread_only == UNCHANGED <<now, store_vars, snap_vars, fg_vars, worker_vars>>

\* wrapper, lines 188-190: cache_manager.get and the return of a hit
cached_get(t) ==
    /\ threads[t].pc = "idle"
    /\ CacheManager_get(cache_key)
    /\ threads' = [threads EXCEPT ![t] =
            IF cache_call'.result # <<>>
            THEN [pc |-> "idle", result |-> <<>>,
                  begun_after |-> returned_mutations, returned |-> cache_call'.result]
            ELSE [pc |-> "miss", result |-> <<>>,
                  begun_after |-> returned_mutations, returned |-> <<>>]]
    /\ UNCHANGED docker
    /\ thread_only

\* wrapper, line 193: result = func(self, *args, **kwargs)
cached_call(t) ==
    /\ threads[t].pc = "miss"
    /\ threads' = [threads EXCEPT ![t].pc = "fetched", ![t].result = <<provider_list>>]
    /\ UNCHANGED <<docker, cache_vars>>
    /\ thread_only

\* wrapper, lines 194-195: cache_manager.set and the return of the result
cached_set(t) ==
    /\ threads[t].pc = "fetched"
    /\ CacheManager_set(cache_key, threads[t].result[1], <<>>)
    /\ threads' = [threads EXCEPT ![t].pc = "idle", ![t].result = <<>>,
                                  ![t].returned = threads[t].result]
    /\ UNCHANGED docker
    /\ thread_only

\* start_container, line 327: client.containers.get(container_id).start()
start_container_start ==
    /\ threads["main"].pc = "idle"
    /\ docker.mutations < MaxMutations
    /\ docker' = [status |-> running, mutations |-> docker.mutations + 1]
    /\ threads' = [threads EXCEPT !["main"].pc = "started"]
    /\ UNCHANGED cache_vars
    /\ thread_only

\* start_container, line 329: cache_manager.invalidate("containers")
start_container_invalidate ==
    /\ threads["main"].pc = "started"
    /\ CacheManager_invalidate(<<k_containers>>)
    /\ threads' = [threads EXCEPT !["main"].pc = "idle"]
    /\ UNCHANGED docker
    /\ thread_only

NextCached ==
    \/ \E t \in Threads : cached_get(t)
    \/ \E t \in Threads : cached_call(t)
    \/ \E t \in Threads : cached_set(t)
    \/ start_container_start
    \/ start_container_invalidate
    \/ Tick

SpecCached == Init /\ [][NextCached]_vars

\* C8: a cached read of the containers that begins after a mutating backend
\* call has returned never returns a list the provider produced before that
\* mutation.
C8_ReadAfterMutationIsFresh ==
    \A t \in Threads :
        threads[t].returned # <<>> =>
            threads[t].returned[1].fetched_at >= threads[t].begun_after

----------------------------------------------------------------------------
(* state.py: LogsWorker.run.  The worker takes the StateManager lock for   *)
(* each call on the store and holds nothing in between, so each call, and  *)
(* each call on the stream process, is a step; the foreground moves the    *)
(* selection and switches tabs in between.                                 *)

logs_called(op) ==
    /\ version' <= MaxLogsVersion \/ ~logs_worker.running
    /\ recorded(op)
    /\ UNCHANGED <<now, snap_vars, cache_vars, thread_vars, fg_vars>>

\* a step of the worker that calls no mutator
logs_local ==
    UNCHANGED <<store_vars, now, snap_vars, cache_vars, thread_vars, fg_vars,
                list_worker, stats_worker>>

max_buffer_size == 1000

\* lines 497-499: a process is held and poll() returns None
process_alive(w) ==
    IF w.process = <<>> THEN FALSE
    ELSE w.streams[w.process[1]].state = "running"

\* line 469: snapshot = self.state_manager.get_snapshot()
logs_get_snapshot ==
    /\ logs_worker.pc = "loop"
    /\ logs_worker.running
    /\ logs_worker' = [logs_worker EXCEPT !.pc = "target", !.tab = state.selected_tab]
    /\ logs_local

\* lines 470-473: target_id
logs_target_id ==
    /\ logs_worker.pc = "target"
    /\ logs_worker' = [logs_worker EXCEPT
            !.pc = "switch",
            !.target_id = IF logs_worker.tab = "containers"
                          THEN get_selected_item_id(state) ELSE <<>>]
    /\ logs_local

\* lines 476-479: the comparison, and terminate() on the process held
logs_switch ==
    /\ logs_worker.pc = "switch"
    /\ logs_worker' =
        IF logs_worker.target_id = logs_worker.current_container_id
        THEN [logs_worker EXCEPT !.pc = "read"]
        ELSE IF logs_worker.process = <<>>
        THEN [logs_worker EXCEPT !.pc = "reset"]
        ELSE LET p == logs_worker.process[1]
             IN  [logs_worker EXCEPT
                    !.pc = "wait",
                    !.streams[p].terminated = TRUE,
                    !.streams[p].state =
                        IF @ = "running" THEN "terminating" ELSE @]
    /\ logs_local

\* lines 480-484: wait(timeout=0.2), kill() when it raises, process = None
logs_wait ==
    /\ logs_worker.pc = "wait"
    /\ LET p == logs_worker.process[1]
       IN  \E ended \in IF logs_worker.streams[p].state = "terminating"
                        THEN {"exited", "killed"}
                        ELSE {logs_worker.streams[p].state} :
                logs_worker' = [logs_worker EXCEPT !.pc = "reset",
                                                   !.streams[p].state = ended,
                                                   !.process = <<>>]
    /\ logs_local

\* the handoff that keeps the lines of the stream left
logs_reset_keeps_buffer ==
    /\ logs_worker.pc = "reset"
    /\ logs_worker' = [logs_worker EXCEPT
            !.pc = IF logs_worker.target_id # <<>> THEN "attach" ELSE "read",
            !.current_container_id = logs_worker.target_id]
    /\ set_logs(<<"Loading logs...">>)
    /\ logs_called("set_logs")
    /\ UNCHANGED <<list_worker, stats_worker>>

\* lines 486-488: current_container_id, log_buffer, set_logs
logs_reset ==
    /\ logs_worker.pc = "reset"
    /\ logs_worker' = [logs_worker EXCEPT
            !.pc = IF logs_worker.target_id # <<>> THEN "attach" ELSE "read",
            !.current_container_id = logs_worker.target_id,
            !.log_buffer = <<>>]
    /\ set_logs(<<"Loading logs...">>)
    /\ logs_called("set_logs")
    /\ UNCHANGED <<list_worker, stats_worker>>

\* lines 490-492: get_log_stream_process returns a process
logs_attach ==
    /\ logs_worker.pc = "attach"
    /\ logs_worker' = [logs_worker EXCEPT
            !.pc = "read",
            !.streams = Append(@, [container |-> logs_worker.target_id[1],
                                   state |-> "running", terminated |-> FALSE,
                                   read |-> 0]),
            !.process = <<Len(logs_worker.streams) + 1>>]
    /\ logs_local

\* lines 493-494: get_log_stream_process raises
logs_attach_fails ==
    /\ logs_worker.pc = "attach"
    /\ logs_worker' = [logs_worker EXCEPT !.pc = "read"]
    /\ set_logs(<<"Error starting logs">>)
    /\ logs_called("set_logs")
    /\ UNCHANGED <<list_worker, stats_worker>>

\* lines 497-502 and 526-527: no process (sleep), or poll() finds it dead
logs_poll ==
    /\ logs_worker.pc = "read"
    /\ ~process_alive(logs_worker)
    /\ logs_worker' = [logs_worker EXCEPT !.pc = "loop", !.process = <<>>]
    /\ logs_local

\* lines 506-510: select() times out on a live process
logs_no_data ==
    /\ logs_worker.pc = "read"
    /\ process_alive(logs_worker)
    /\ logs_worker' = [logs_worker EXCEPT !.pc = "loop"]
    /\ logs_local

\* line 512: what readline() returns on the stream of a container, decoded
readline(container) ==
    IF container = <<"c", "1">> THEN "c1 says" ELSE "c2 says"

\* the container of the stream held
held_container == logs_worker.streams[logs_worker.process[1]].container

\* lines 512-519 cutting a full buffer at its newer end
read_line_keeps_oldest(line) ==
    /\ logs_worker.pc = "read"
    /\ process_alive(logs_worker)
    /\ LET p == logs_worker.process[1]
           appended == Append(logs_worker.log_buffer, line)
       IN  /\ logs_worker' = [logs_worker EXCEPT
                    !.pc = "scroll",
                    !.streams[p].read = @ + 1,
                    !.log_buffer =
                        IF Len(appended) > max_buffer_size
                        THEN SubSeq(appended, 1, max_buffer_size)
                        ELSE appended]
           /\ set_logs(logs_worker'.log_buffer)

\* lines 512-519: readline() returned line; log_buffer.append, the cut to
\* max_buffer_size, set_logs(list(log_buffer))
read_line(line) ==
    /\ logs_worker.pc = "read"
    /\ process_alive(logs_worker)
    /\ LET p == logs_worker.process[1]
           appended == Append(logs_worker.log_buffer, line)
       IN  /\ logs_worker' = [logs_worker EXCEPT
                    !.pc = "scroll",
                    !.streams[p].read = @ + 1,
                    !.log_buffer =
                        IF Len(appended) > max_buffer_size
                        THEN SubSeq(appended, Len(appended) - max_buffer_size + 1,
                                    Len(appended))
                        ELSE appended]
           /\ set_logs(logs_worker'.log_buffer)

logs_read_line ==
    /\ process_alive(logs_worker)
    /\ read_line(readline(held_container))
    /\ logs_called("set_logs")
    /\ UNCHANGED <<list_worker, stats_worker>>

\* line 522: scroll_logs(1, 1000)
scroll_after_read ==
    /\ logs_worker.pc = "scroll"
    /\ logs_worker' = [logs_worker EXCEPT !.pc = "loop"]
    /\ scroll_logs(1, 1000)

logs_scroll ==
    /\ scroll_after_read
    /\ logs_called("scroll_logs")
    /\ UNCHANGED <<list_worker, stats_worker>>

\* the docker logs process of the stream held ends on its own
stream_dies ==
    /\ process_alive(logs_worker)
    /\ logs_worker.deaths < MaxDeaths
    /\ logs_worker' = [logs_worker EXCEPT
            !.streams[logs_worker.process[1]].state = "dead",
            !.deaths = @ + 1]
    /\ logs_local

LogsWorker_run ==
    \/ logs_get_snapshot
    \/ logs_target_id
    \/ logs_switch
    \/ logs_wait
    \/ logs_reset
    \/ logs_attach
    \/ logs_attach_fails
    \/ logs_poll
    \/ logs_no_data
    \/ logs_read_line
    \/ logs_scroll

\* the foreground beside the worker: the containers arrive once, then the
\* selection moves and the tab changes
logs_foreground ==
    \/ /\ state.containers = <<>>
       /\ update_containers(<<fetched_container(<<"c", "1">>, <<"a", "b">>, running, <<"B">>),
                              fetched_container(<<"c", "2">>, <<"A">>, running, <<"d">>)>>)
       /\ logs_called("update_containers")
       /\ UNCHANGED worker_vars
    \/ \E d \in Deltas :
            /\ move_selection(d, screen.page_height)
            /\ logs_called("move_selection")
            /\ UNCHANGED worker_vars
    \/ \E t \in {"containers", "images"} :
            /\ set_tab(t)
            /\ logs_called("set_tab")
            /\ UNCHANGED worker_vars

NextLogs ==
    \/ LogsWorker_run
    \/ stream_dies
    \/ logs_foreground

SpecLogs == Init /\ [][NextLogs]_vars

\* the worker's loop keeps being scheduled
SpecLogsFair == SpecLogs /\ WF_vars(LogsWorker_run)

\* the streams whose process has not ended
attached_streams ==
    { i \in 1..Len(logs_worker.streams) :
        logs_worker.streams[i].state \in {"running", "terminating"} }

\* C16: when the worker hands over from the stream of one container to the
\* stream of another, the old process is terminated before the new one is
\* started and is killed only after terminate(), the worker never has two
\* attached streams, and the buffer never holds lines of two containers.
C16_HandoffTerminatesThenClears ==
    /\ \A i \in attached_streams : logs_worker.process = <<i>>
    /\ \A i \in 1..Len(logs_worker.streams) :
            logs_worker.streams[i].state \in {"exited", "killed"}
                => logs_worker.streams[i].terminated
    /\ \A i, j \in 1..Len(logs_worker.log_buffer) :
            logs_worker.log_buffer[i] = logs_worker.log_buffer[j]
    /\ logs_worker.log_buffer # <<>> /\ logs_worker.current_container_id # <<>>
            => logs_worker.log_buffer[1] = readline(logs_worker.current_container_id[1])

\* the stream of one container was read, terminated and killed, and the
\* buffer holds a line of the stream of another container
C16_Witness ==
    /\ Len(logs_worker.streams) = 2
    /\ logs_worker.streams[1].container # logs_worker.streams[2].container
    /\ logs_worker.streams[1].read > 0
    /\ logs_worker.streams[1].terminated
    /\ logs_worker.streams[1].state = "killed"
    /\ logs_worker.process = <<2>>
    /\ logs_worker.log_buffer = <<readline(logs_worker.streams[2].container)>>

\* what the worker computes as target_id in the current state of the store
selected_container ==
    IF state.selected_tab = "containers" THEN get_selected_item_id(state) ELSE <<>>

\* the worker is about to poll a held stream whose process has died
stream_found_dead ==
    /\ logs_worker.pc = "read"
    /\ logs_worker.process # <<>>
    /\ ~process_alive(logs_worker)
    /\ logs_worker.streams[logs_worker.process[1]].state = "dead"
    /\ logs_worker.current_container_id # <<>>
    /\ selected_container = logs_worker.current_container_id

\* C20: when the attached stream process has died and the selected container
\* stays the same, the worker, scheduled fairly, eventually holds a live
\* stream for that container again (or the selection has changed meanwhile).
C20_DeadStreamIsReattached ==
    stream_found_dead
        ~> (process_alive(logs_worker)
            \/ selected_container # logs_worker.current_container_id)

----------------------------------------------------------------------------
(* state.py: ListWorker.  force_refresh runs on the foreground thread and  *)
(* run() on the worker's, with no lock around _force_refresh_flag, so the  *)
(* test of the flag and its clearing are two steps.                        *)

AllKinds == {"containers", "images", "volumes", "networks", "composes"}

cleanup_interval == 60

\* what the daemon holds of each kind
provided(kind) ==
    CASE kind = "containers" ->
            <<fetched_container(<<"c", "1">>, <<"a", "b">>, running, <<"B">>)>>
      [] kind = "images" -> <<CHOOSE i \in ImagePool : TRUE>>
      [] kind = "volumes" -> <<CHOOSE v \in VolumePool : TRUE>>
      [] kind = "networks" -> <<CHOOSE n \in NetworkPool : TRUE>>
      [] kind = "composes" -> <<CHOOSE c \in ComposePool : TRUE>>

\* backend.py 47-72, docker_safe(default_return=[]): the list the provider
\* returns, or the default when the provider raises
docker_safe(kind, raised) == IF raised THEN <<>> ELSE provided(kind)

\* the update_* mutator of a kind
update_kind(kind, items) ==
    CASE kind = "containers" -> update_containers(items)
      [] kind = "images" -> update_images(items)
      [] kind = "volumes" -> update_volumes(items)
      [] kind = "networks" -> update_networks(items)
      [] kind = "composes" -> update_composes(items)

\* a call of the worker on the store, with whether the provider call whose
\* result it stores had raised
list_called(op, raised) ==
    /\ last_call' = [op |-> op, bump |-> version' - version,
                     changed |-> state' # state, raised |-> raised]
    /\ UNCHANGED <<now, snap_vars, cache_vars, thread_vars, fg_vars,
                   logs_worker, stats_worker>>

\* a step of the worker that calls no mutator
list_local ==
    UNCHANGED <<store_vars, now, snap_vars, cache_vars, thread_vars, fg_vars,
                logs_worker, stats_worker>>

\* with self._lock, on an RLock: the thread can enter when no other holds it
acquired(thread) == lock = <<>> \/ lock = <<thread>>

\* ListWorker.force_refresh, called by the foreground
force_refresh ==
    /\ list_worker.refreshes < MaxRefreshes
    /\ list_worker' = [list_worker EXCEPT !.force_refresh_flag = TRUE,
                                          !.refreshes = @ + 1,
                                          !.age = 0,
                                          !.fetched_since = {}]
    /\ list_local

\* lines 413-415: check_for_updates at startup
list_check_for_updates ==
    /\ list_worker.pc = "start"
    /\ list_worker' = [list_worker EXCEPT !.pc = "loop", !.update_checks = @ + 1]
    /\ \E available \in BOOLEAN :
          /\ IF available THEN acquired("list") /\ set_update_available(TRUE)
                          ELSE UNCHANGED <<state, version>>
          /\ list_called("check_for_updates", FALSE)

\* the test of the flag that leaves the tick counter as it is
list_test_flag_keeps_counter ==
    /\ list_worker.pc = "loop"
    /\ list_worker.running
    /\ list_worker.counter <= MaxCounter
    /\ list_worker' = [list_worker EXCEPT
            !.pc = IF list_worker.force_refresh_flag THEN "clear" ELSE "containers",
            !.age = min(@ + 1, 2),
            !.fetched_since = IF @ = AllKinds THEN @ ELSE {},
            !.iter_kinds = {},
            !.iter_cleared = FALSE]
    /\ list_local

\* lines 420-424: while self.running, if self._force_refresh_flag: counter = 0
list_test_flag ==
    /\ list_worker.pc = "loop"
    /\ list_worker.running
    /\ list_worker.counter <= MaxCounter
    /\ list_worker' = [list_worker EXCEPT
            !.pc = IF list_worker.force_refresh_flag THEN "clear" ELSE "containers",
            !.counter = IF list_worker.force_refresh_flag THEN 0 ELSE @,
            !.age = min(@ + 1, 2),
            !.fetched_since = IF @ = AllKinds THEN @ ELSE {},
            !.iter_kinds = {},
            !.iter_cleared = FALSE]
    /\ list_local

\* line 425: self._force_refresh_flag = False
list_clear_flag ==
    /\ list_worker.pc = "clear"
    /\ list_worker' = [list_worker EXCEPT !.pc = "containers",
                                          !.force_refresh_flag = FALSE,
                                          !.iter_cleared = TRUE]
    /\ list_local

\* the statement after the fetch of a kind
after_kind(kind) ==
    CASE kind = "containers" -> "images"
      [] kind = "images" -> "volumes"
      [] kind = "volumes" -> "networks"
      [] kind = "networks" -> "composes"
      [] kind = "composes" -> "cleanup"

\* lines 430-432 (every 2nd tick) and 435-439 (every 10th): the provider is
\* asked, behind docker_safe, and what comes back is stored
list_fetch(kind) ==
    /\ list_worker.pc = kind
    /\ list_worker.counter % (IF kind = "containers" THEN 2 ELSE 10) = 0
    /\ acquired("list")
    /\ list_worker' = [list_worker EXCEPT
            !.pc = after_kind(kind),
            !.iter_kinds = @ \cup {kind},
            !.fetched_since = @ \cup {kind}]
    /\ \E raised \in BOOLEAN :
          /\ update_kind(kind, docker_safe(kind, raised))
          /\ list_called(kind, raised)

\* lines 430 and 435: the tick is not one of the kind's
list_skip(kind) ==
    /\ list_worker.pc = kind
    /\ list_worker.counter % (IF kind = "containers" THEN 2 ELSE 10) # 0
    /\ list_worker' = [list_worker EXCEPT
            !.pc = IF kind = "containers" THEN "images" ELSE "cleanup"]
    /\ list_local

\* cleanup_expired removing the entries whose age has reached their TTL
cleanup_expired_at_ttl ==
    LET keys_to_remove == { k \in DOMAIN cache : is_expired_at_ttl(cache[k], now) }
    IN  /\ cache' = without(cache, keys_to_remove)
        /\ cache_stats' = [cache_stats EXCEPT
                                !.evictions = @ + Cardinality(keys_to_remove)]
        /\ cache_call' = [op |-> "cleanup_expired", key |-> <<>>, value |-> <<>>,
                          before |-> <<cache>>,
                          result |-> <<Cardinality(keys_to_remove)>>]

\* cache.py 126-143: CacheManager.cleanup_expired; result is the count returned
cleanup_expired ==
    LET keys_to_remove == { k \in DOMAIN cache : is_expired(cache[k], now) }
    IN  /\ cache' = without(cache, keys_to_remove)
        /\ cache_stats' = [cache_stats EXCEPT
                                !.evictions = @ + Cardinality(keys_to_remove)]
        /\ cache_call' = [op |-> "cleanup_expired", key |-> <<>>, value |-> <<>>,
                          before |-> <<cache>>,
                          result |-> <<Cardinality(keys_to_remove)>>]

\* lines 442-446: the periodic cache cleanup
list_cleanup ==
    /\ list_worker.pc = "cleanup"
    /\ IF list_worker.cleanup_counter + 1 >= cleanup_interval
       THEN /\ cleanup_expired
            /\ list_worker' = [list_worker EXCEPT !.pc = "tick", !.cleanup_counter = 0]
       ELSE /\ UNCHANGED cache_vars
            /\ list_worker' = [list_worker EXCEPT !.pc = "tick",
                                                  !.cleanup_counter = @ + 1]
    /\ UNCHANGED <<store_vars, now, snap_vars, thread_vars, fg_vars,
                   logs_worker, stats_worker>>

\* lines 451-452: counter += 1, sleep
list_tick ==
    /\ list_worker.pc = "tick"
    /\ list_worker' = [list_worker EXCEPT !.pc = "loop", !.counter = @ + 1]
    /\ list_local

ListWorker_run ==
    \/ list_check_for_updates
    \/ list_test_flag
    \/ list_clear_flag
    \/ \E kind \in AllKinds : list_fetch(kind)
    \/ \E kind \in {"containers", "images"} : list_skip(kind)
    \/ list_cleanup
    \/ list_tick

NextList ==
    \/ ListWorker_run
    \/ force_refresh

SpecList == Init /\ [][NextList]_vars

\* the list worker under either setting of docker.auto_update
InitUpdate ==
    /\ Constructed
    /\ screen = [page_height |-> 1, modal |-> "none"]
    /\ config \in [auto_update : BOOLEAN]

SpecUpdate == InitUpdate /\ [][NextList]_vars

\* C22: with auto-update disabled in the configuration, the list worker
\* never calls check_for_updates.
C22_NoUpdateCheckWhenDisabled ==
    ~config.auto_update => list_worker.update_checks = 0

\* the first iteration begun after the last force_refresh call is at its end
first_iteration_done ==
    /\ list_worker.refreshes > 0
    /\ list_worker.age = 1
    /\ list_worker.pc = "tick"

\* C17 as stated: the first iteration that starts after a force_refresh call
\* itself resets the counter, clears the flag and fetches all five
\* collections.
C17_NextIterationRefetches ==
    first_iteration_done
        => /\ list_worker.iter_cleared
           /\ list_worker.iter_kinds = AllKinds

\* C17 as the code has it: by the end of the first iteration that starts
\* after a force_refresh call, one iteration has fetched all five collections
\* after the call; it is that iteration, or the one in progress at the call
\* when the call falls between its test of the flag and its clearing of it.
C17_RefetchFollowsEveryCall ==
    /\ first_iteration_done => list_worker.fetched_since = AllKinds
    /\ list_worker.refreshes > 0 /\ list_worker.age = 2
            => list_worker.fetched_since = AllKinds
    /\ first_iteration_done /\ list_worker.iter_kinds # AllKinds
            => ~list_worker.iter_cleared /\ list_worker.counter > 0

\* a second call fell between the test and the clearing of the first call's
\* flag: the iteration then in progress fetched everything after it, and the
\* next iteration found no flag and fetched nothing
C17_Witness ==
    /\ first_iteration_done
    /\ list_worker.refreshes = 2
    /\ list_worker.iter_kinds = {}
    /\ ~list_worker.force_refresh_flag
    /\ list_worker.fetched_since = AllKinds

\* C18: a provider call of the list worker that raised leaves the collections
\* of the store as they were before the worker stored its result.
C18_FailedFetchChangesNothing ==
    ("raised" \in DOMAIN last_call /\ last_call.raised) => ~last_call.changed

----------------------------------------------------------------------------
(* state.py: get_snapshot, and what the holder of a snapshot sees later.   *)
(* The snapshot holds new ContainerInfo objects, and new lists of the      *)
(* store's own ImageInfo, VolumeInfo, NetworkInfo and ComposeInfo objects: *)
(* an assignment to a field of such an object is seen through both.        *)

\* lines 357-375: the AppState that get_snapshot builds
get_snapshot_value(st) ==
    LET f_containers == get_filtered_list_unlocked(st, "containers")
    IN  [AppState EXCEPT
            !.containers = [i \in 1..Len(f_containers) |->
                LET c == f_containers[i]
                IN  ContainerInfo(c.id, c.short_id, c.name, c.status, c.image,
                                  c.project, c.cpu_percent, c.ram_usage)],
            !.images = get_filtered_list_unlocked(st, "images"),
            !.volumes = get_filtered_list_unlocked(st, "volumes"),
            !.networks = get_filtered_list_unlocked(st, "networks"),
            !.composes = get_filtered_list_unlocked(st, "compose"),
            !.selected_tab = st.selected_tab,
            !.selected_index = st.selected_index,
            !.scroll_offset = st.scroll_offset,
            !.logs = st.logs,
            !.message = st.message,
            !.filter_text = st.filter_text,
            !.is_filtering = st.is_filtering,
            !.sort_mode = st.sort_mode,
            !.update_available = st.update_available,
            !.focused_pane = st.focused_pane,
            !.logs_scroll_offset = st.logs_scroll_offset,
            !.self_usage = st.self_usage]

\* the kinds whose lists get_snapshot builds with list(...) of the store's objects
shared_kinds == {"images", "volumes", "networks", "compose"}

get_snapshot ==
    /\ snapshot' = <<get_snapshot_value(state)>>
    /\ aliased' = shared_kinds
    /\ last_call' = [op |-> "get_snapshot", bump |-> 0, changed |-> FALSE]
    /\ UNCHANGED <<state, version, now, cache_vars, thread_vars, fg_vars, worker_vars>>

\* a held snapshot read after the store went to st: the items of the kinds in
\* al are the store's objects, so they show the store's values
held(snap, st, al) ==
    LET through(sn, tab) ==
            IF tab \in al
            THEN with_collection(sn, tab,
                    [i \in 1..Len(collection(sn, tab)) |->
                        stored_with(collection(st, tab), tab, collection(sn, tab)[i])])
            ELSE sn
    IN  through(through(through(through(snap, "images"), "volumes"), "networks"), "compose")

\* a call while a snapshot may be held; replaced: the kinds whose collection
\* the call replaced by newly fetched objects
observed(op, replaced) ==
    /\ history(op)
    /\ version' <= MaxSnapVersion
    /\ aliased' = aliased \ replaced
    /\ snapshot' = [i \in 1..Len(snapshot) |-> held(snapshot[i], state', aliased')]
    /\ UNCHANGED <<now, cache_vars, thread_vars, fg_vars, worker_vars>>

NextSnap ==
    \/ get_snapshot
    \/ \E l \in fetched_lists(ContainerPool, "containers") :
            update_containers(l) /\ observed("update_containers", {"containers"})
    \/ \E l \in fetched_lists(ImagePool, "images") :
            update_images(l) /\ observed("update_images", {"images"})
    \/ \E l \in fetched_lists(VolumePool, "volumes") :
            update_volumes(l) /\ observed("update_volumes", {"volumes"})
    \/ update_volumes(state.volumes) /\ observed("update_volumes", {})
    \/ \E l \in fetched_lists(NetworkPool, "networks") :
            update_networks(l) /\ observed("update_networks", {"networks"})
    \/ \E l \in fetched_lists(ComposePool, "compose") :
            update_composes(l) /\ observed("update_composes", {"compose"})
    \/ \E c \in ContainerPool, m \in StatPool :
            update_container_stats(c.id, m[1], m[2]) /\ observed("update_container_stats", {})
    \/ \E t \in Tabs : set_tab(t) /\ observed("set_tab", {})
    \/ \E m \in ErrorMsgs : set_error(m) /\ observed("set_error", {})
    \/ toggle_bulk_select_mode /\ observed("toggle_bulk_select_mode", {})
    \/ toggle_item_selection /\ observed("toggle_item_selection", {})
    \/ select_all_items /\ observed("select_all_items", {})
    \/ deselect_all_items /\ observed("deselect_all_items", {})
    \/ \E t \in FilterTexts : set_filter_text(t) /\ observed("set_filter_text", {})

SpecSnap == Init /\ [][NextSnap]_vars

\* C9: a call made after a snapshot was taken leaves every list of the
\* snapshot and every field of every item in it unchanged.
C9_SnapshotIsIndependent ==
    [][(snapshot # <<>> /\ last_call'.op # "get_snapshot") => snapshot' = snapshot]_vars

\* C10: every field of a snapshot equals the store's field when it was taken:
\* the bulk mode, the error and its timestamp, and the selected flag of every
\* container of the projection.
C10_SnapshotCarriesBulkAndError ==
    last_call.op = "get_snapshot" =>
        /\ snapshot[1].bulk_select_mode = state.bulk_select_mode
        /\ snapshot[1].last_error = state.last_error
        /\ snapshot[1].error_timestamp = state.error_timestamp
        /\ snapshot[1].containers = get_filtered_list_unlocked(state, "containers")

----------------------------------------------------------------------------
(* main.py 437-464: the update-available modal, beside the list worker and *)
(* the stats worker.  The foreground takes the StateManager lock, draws    *)
(* the modal and waits in getch() for Y or N with the lock held.           *)

\* a call of the stats worker on the store
stats_called(op) ==
    /\ recorded(op)
    /\ UNCHANGED <<now, snap_vars, cache_vars, thread_vars, fg_vars,
                   list_worker, logs_worker>>

\* state.py 551: update_self_usage(get_self_usage()), "" when the provider raises
stats_usage ==
    /\ stats_worker.pc = "usage"
    /\ stats_worker.running
    /\ stats_worker.loops < MaxStatsLoops
    /\ acquired("stats")
    /\ stats_worker' = [stats_worker EXCEPT !.pc = "snapshot",
                                            !.usages = 1,
                                            !.stored_running = {},
                                            !.fetched = {}]
    /\ \E usage \in UsageTexts \cup {""} : update_self_usage(usage)
    /\ stats_called("update_self_usage")

\* state.py 553-554: get_snapshot, running_containers
stats_snapshot ==
    /\ stats_worker.pc = "snapshot"
    /\ acquired("stats")
    /\ LET containers == get_snapshot_value(state).containers
           ids == [i \in 1..Len(containers) |-> containers[i].id]
           RECURSIVE running_ids(_)
           running_ids(n) ==
                IF n = 0 THEN <<>>
                ELSE IF containers[n].status = running
                THEN Append(running_ids(n - 1), ids[n])
                ELSE running_ids(n - 1)
       IN  stats_worker' = [stats_worker EXCEPT
                !.pc = "stats",
                !.todo = running_ids(Len(containers)),
                !.stored_running =
                    { state.containers[i].id : i \in
                        { j \in 1..Len(state.containers) :
                            state.containers[j].status = running } }]
    /\ UNCHANGED <<store_vars, now, snap_vars, cache_vars, thread_vars, fg_vars,
                   list_worker, logs_worker>>

\* state.py 556-561: get_container_stats, ("--", "--") when the provider
\* raises, and update_container_stats
stats_container ==
    /\ stats_worker.pc = "stats"
    /\ stats_worker.todo # <<>>
    /\ stats_worker.running
    /\ acquired("stats")
    /\ stats_worker' = [stats_worker EXCEPT
            !.todo = Tail(@),
            !.fetched = @ \cup {Head(stats_worker.todo)}]
    /\ \E m \in StatPool \cup { <<no_stat, "--">> } :
            update_container_stats(Head(stats_worker.todo), m[1], m[2])
    /\ stats_called("update_container_stats")

\* state.py 557 and 567: the loop is over or left (if not self.running:
\* break), sleep
stats_sleep ==
    /\ stats_worker.pc = "stats"
    /\ stats_worker.todo = <<>> \/ ~stats_worker.running
    /\ stats_worker' = [stats_worker EXCEPT !.pc = "usage", !.loops = @ + 1]
    /\ UNCHANGED <<store_vars, now, snap_vars, cache_vars, thread_vars, fg_vars,
                   list_worker, logs_worker>>

StatsWorker_run ==
    \/ stats_usage
    \/ stats_snapshot
    \/ stats_container
    \/ stats_sleep

\* the answers Y the model follows: each ends in a set_message
MaxModalVersion == 4

\* a step of the foreground on its own variables
modal_step(op) ==
    /\ recorded(op)
    /\ UNCHANGED <<now, snap_vars, cache_vars, thread_vars, worker_vars, config,
                   cache_lock>>

\* main.py 437-446: state.update_available, acquire_lock, draw_update_modal,
\* and the wait in getch()
modal_open ==
    /\ screen.modal = "none"
    /\ state.update_available
    /\ acquired("main")
    /\ lock' = <<"main">>
    /\ screen' = [screen EXCEPT !.modal = "update"]
    /\ UNCHANGED <<state, version>>
    /\ modal_step("acquire_lock")

\* main.py 447-452: Y, release_lock, perform_update begun
modal_yes ==
    /\ screen.modal = "update"
    /\ lock' = <<>>
    /\ screen' = [screen EXCEPT !.modal = "updating"]
    /\ UNCHANGED <<state, version>>
    /\ modal_step("release_lock")

\* main.py 452-459 and 581-584: perform_update returns, return, and the
\* finally calls release_lock again; main owns the lock no more, so
\* RLock.release raises RuntimeError, which replaces the return and is caught
\* by the loop's handler: set_message(f"Error: {e}"), and the loop goes on
modal_return ==
    /\ screen.modal = "updating"
    /\ acquired("main")
    /\ version < MaxModalVersion
    /\ IF lock = <<"main">>
       THEN /\ UNCHANGED <<state, version>>
            /\ screen' = [screen EXCEPT !.modal = "left"]
       ELSE /\ set_message("Error: cannot release un-acquired lock")
            /\ screen' = [screen EXCEPT !.modal = "none"]
    /\ lock' = <<>>
    /\ modal_step("release_lock_finally")

\* main.py 454-459: N, set_update_available(False), break, release_lock
modal_no ==
    /\ screen.modal = "update"
    /\ acquired("main")
    /\ set_update_available(FALSE)
    /\ lock' = <<>>
    /\ screen' = [screen EXCEPT !.modal = "none"]
    /\ modal_step("set_update_available")

NextModal ==
    \/ modal_open
    \/ modal_yes
    \/ modal_return
    \/ modal_no
    \/ list_check_for_updates
    \/ list_worker.counter < MaxModalTicks /\ list_test_flag
    \/ \E kind \in AllKinds : list_fetch(kind)
    \/ \E kind \in {"containers", "images"} : list_skip(kind)
    \/ list_cleanup
    \/ list_tick
    \/ StatsWorker_run

SpecModal == Init /\ [][NextModal]_vars

\* the list worker has reached a call on the store
list_at_store ==
    /\ list_worker.pc \in AllKinds
    /\ list_worker.counter % (IF list_worker.pc = "containers" THEN 2 ELSE 10) = 0

\* the stats worker has reached a call on the store
stats_at_store ==
    \/ stats_worker.pc \in {"usage", "snapshot"}
    \/ stats_worker.pc = "stats" /\ stats_worker.todo # <<>>

\* C19: while the foreground waits in the update-available modal, a worker
\* that has reached update_containers, update_container_stats, get_snapshot
\* or another call on the store can enter it.
C19_ModalBlocksNoWorker ==
    screen.modal = "update"
        => /\ list_at_store => acquired("list")
           /\ stats_at_store => acquired("stats")

\* C38: in the update-available modal every release_lock() is made on a
\* lock the foreground holds (none raises the RuntimeError of a release by a
\* thread that does not own the lock), and the lock is free once the modal
\* has been answered.
C38_ModalReleasesTheLockOnce ==
    /\ last_call.op = "release_lock_finally" => ~last_call.changed
    /\ state.message # "Error: cannot release un-acquired lock"
    /\ screen.modal \in {"none", "updating", "left"} => lock = <<>>

----------------------------------------------------------------------------
(* state.py 546-569: StatsWorker.run beside a foreground that stores the   *)
(* containers, types a filter, switches tabs and changes the sort mode.    *)

\* a call of the foreground on the store
stats_foreground(op) ==
    /\ version' <= MaxStatsVersion
    /\ recorded(op)
    /\ UNCHANGED <<now, snap_vars, cache_vars, thread_vars, fg_vars, worker_vars>>

NextStats ==
    \/ StatsWorker_run
    \/ \E l \in fetched_lists(ContainerPool, "containers") :
            /\ state.containers = <<>>
            /\ update_containers(l)
            /\ stats_foreground("update_containers")
    \/ \E t \in {<<>>, <<"d">>} :
            set_filter_text(t) /\ stats_foreground("set_filter_text")
    \/ \E t \in {"containers", "images"} :
            set_tab(t) /\ stats_foreground("set_tab")
    \/ cycle_sort_mode /\ stats_foreground("cycle_sort_mode")

SpecStats == Init /\ [][NextStats]_vars

\* the stats worker has gone through running_containers
stats_loop_done == stats_worker.pc = "stats" /\ stats_worker.todo = <<>>

\* C21: at the end of the loop of the stats worker, every running container
\* the store held when the loop took its snapshot has had its stats fetched
\* and applied, and the self usage was refreshed once.
C21_EveryRunningContainerMeasured ==
    stats_loop_done
        => /\ stats_worker.stored_running \subseteq stats_worker.fetched
           /\ stats_worker.usages = 1

----------------------------------------------------------------------------
(* main.py 50-348: handle_action for the key 'd' outside bulk mode, called *)
(* by main with the tab and the bulk mode of the snapshot it holds and the *)
(* identity get_selected_item_id returned.                                 *)

\* cache.py 113-115: the dict without the keys that start with the pattern
invalidated(c, pattern) ==
    without(c, { k \in DOMAIN c : startswith(k, pattern) })

\* cache.py 120-124: the dict without the keys that contain
\* f"container_stats:{container_id}"
without_container_stats(c, container_id) ==
    without(c, { k \in DOMAIN c :
                    str_in(k_container_stats \o <<":">> \o container_id, k) })

\* main.py 235-238: the backend call of each tab
remove_call(tab) ==
    CASE tab = "containers" -> <<"remove_container">>
      [] tab = "images" -> <<"remove_image">>
      [] tab = "volumes" -> <<"remove_volume">>
      [] tab = "networks" -> <<"remove_network">>
      [] OTHER -> <<>>

\* the cache key prefix each remove_* invalidates (backend.py 358, 426, 449, 454)
cache_prefix(tab) ==
    CASE tab = "containers" -> k_containers
      [] tab = "images" -> k_images
      [] tab = "volumes" -> k_volumes
      [] tab = "networks" -> k_networks

\* backend.py 355-359, 415-426, 446-454: the cache after remove_* on an item,
\* done tells whether the daemon removed it.  remove_image invalidates in a
\* finally; the others only after the removal.
cache_after_remove(tab, item, done) ==
    IF tab = "containers" /\ done
    THEN without_container_stats(invalidated(cache, k_containers), item)
    ELSE IF done \/ tab = "images"
    THEN invalidated(cache, cache_prefix(tab))
    ELSE cache

\* handle_action that refreshes whatever the answer to the confirmation
handle_action_always_refreshes(accepted, done) ==
    LET snap == get_snapshot_value(state)
        tab == snap.selected_tab
        item_id == get_selected_item_id(state)
        call == IF accepted THEN remove_call(tab) ELSE <<>>
        raises == call # <<>> /\ ~done /\ tab \in {"volumes", "networks"}
    IN  /\ item_id # <<>>
        /\ ~snap.bulk_select_mode
        /\ list_worker.refreshes < MaxRefreshes
        /\ version < MaxDeleteVersion
        /\ IF call # <<>>
           THEN /\ cache' = cache_after_remove(tab, item_id[1], done)
                /\ cache_call' = [op |-> "invalidate", key |-> <<cache_prefix(tab)>>,
                                  value |-> <<>>, before |-> <<>>, result |-> <<>>]
                /\ UNCHANGED cache_stats
           ELSE UNCHANGED cache_vars
        /\ IF raises THEN set_message("Error") ELSE UNCHANGED <<state, version>>
        /\ list_worker' =
                IF ~raises
                THEN [list_worker EXCEPT !.force_refresh_flag = TRUE,
                                         !.refreshes = @ + 1,
                                         !.age = 0,
                                         !.fetched_since = {}]
                ELSE list_worker
        /\ last_call' = [op |-> "handle_action", bump |-> version' - version,
                         changed |-> state' # state, tab |-> tab,
                         item_id |-> item_id, accepted |-> accepted,
                         removal_failed |-> raises, removed |-> call,
                         refreshed |-> list_worker'.refreshes - list_worker.refreshes]
        /\ UNCHANGED <<now, snap_vars, thread_vars, fg_vars, logs_worker, stats_worker>>

\* main.py 233-239 and 343-348: key 'd', ask_confirmation, the remove call of
\* the tab, action_taken, force_refresh; an exception of the remove call is
\* caught at 346 and shown with set_message
handle_action(accepted, done) ==
    LET snap == get_snapshot_value(state)
        tab == snap.selected_tab
        item_id == get_selected_item_id(state)
        call == IF accepted THEN remove_call(tab) ELSE <<>>
        raises == call # <<>> /\ ~done /\ tab \in {"volumes", "networks"}
    IN  /\ item_id # <<>>
        /\ ~snap.bulk_select_mode
        /\ list_worker.refreshes < MaxRefreshes
        /\ version < MaxDeleteVersion
        /\ IF call # <<>>
           THEN /\ cache' = cache_after_remove(tab, item_id[1], done)
                /\ cache_call' = [op |-> "invalidate", key |-> <<cache_prefix(tab)>>,
                                  value |-> <<>>, before |-> <<>>, result |-> <<>>]
                /\ UNCHANGED cache_stats
           ELSE UNCHANGED cache_vars
        /\ IF raises THEN set_message("Error") ELSE UNCHANGED <<state, version>>
        /\ list_worker' =
                IF accepted /\ ~raises
                THEN [list_worker EXCEPT !.force_refresh_flag = TRUE,
                                         !.refreshes = @ + 1,
                                         !.age = 0,
                                         !.fetched_since = {}]
                ELSE list_worker
        /\ last_call' = [op |-> "handle_action", bump |-> version' - version,
                         changed |-> state' # state, tab |-> tab,
                         item_id |-> item_id, accepted |-> accepted,
                         removal_failed |-> raises, removed |-> call,
                         refreshed |-> list_worker'.refreshes - list_worker.refreshes]
        /\ UNCHANGED <<now, snap_vars, thread_vars, fg_vars, logs_worker, stats_worker>>

\* a call of the foreground on the store
delete_foreground(op) ==
    /\ version' <= MaxDeleteVersion
    /\ recorded(op)
    /\ UNCHANGED <<now, snap_vars, cache_vars, thread_vars, fg_vars, worker_vars>>

NextDelete ==
    \/ \E accepted, done \in BOOLEAN : handle_action(accepted, done)
    \/ \E kind \in AllKinds :
            /\ collection(state, IF kind = "composes" THEN "compose" ELSE kind) = <<>>
            /\ update_kind(kind, provided(kind))
            /\ delete_foreground(kind)
    \/ \E t \in Tabs : set_tab(t) /\ delete_foreground("set_tab")
    \/ toggle_bulk_select_mode /\ delete_foreground("toggle_bulk_select_mode")

SpecDelete == Init /\ [][NextDelete]_vars

\* the last step was handle_action for the delete key
deleted == last_call.op = "handle_action"

----------------------------------------------------------------------------
(* state.py 465-522 beside 318-338 and 151-163: what state.logs shows      *)
(* while the foreground moves the selection under the LogsWorker.          *)

\* the single-line lists set_tab, move_selection and the worker publish
\* in place of lines of a stream
LogPlaceholders ==
    { <<"Loading...">>, <<"Loading logs...">>, <<"Error starting logs">> }

\* C27: after move_selection or set_tab changed what is selected, state.logs
\* is a placeholder or lines of the stream of the container selected now,
\* under every interleaving of the foreground with the LogsWorker.
C27_LogsShowOnlyTheSelectedContainer ==
    \/ state.logs = <<>>
    \/ state.logs \in LogPlaceholders
    \/ /\ selected_container # <<>>
       /\ \A i \in 1..Len(state.logs) :
            state.logs[i] = readline(selected_container[1])

----------------------------------------------------------------------------
(* state.py 151-163: set_tab from the states the foreground and the        *)
(* workers bring the store to.                                             *)

\* a call on the store, with the tab passed (if any) and the state before it
tab_called(op, tab) ==
    /\ version' <= MaxTabVersion
    /\ last_call' = [op |-> op, bump |-> version' - version,
                     changed |-> state' # state, tab |-> tab, before |-> state]
    /\ UNCHANGED <<now, snap_vars, cache_vars, thread_vars, fg_vars, worker_vars>>

NextTab ==
    \/ \E t \in Tabs : set_tab(t) /\ tab_called("set_tab", t)
    \/ /\ state.containers = <<>>
       /\ update_containers(<<fetched_container(<<"c", "1">>, <<"a", "b">>, running, <<"B">>),
                              fetched_container(<<"c", "2">>, <<"A">>, running, <<"d">>)>>)
       /\ tab_called("update_containers", "")
    \/ /\ state.images = <<>>
       /\ update_images(provided("images"))
       /\ tab_called("update_images", "")
    \/ \E d \in Deltas :
            move_selection(d, screen.page_height) /\ tab_called("move_selection", "")
    \/ \E t \in {<<"a">>, <<"d">>} :
            set_filter_text(t) /\ tab_called("set_filter_text", "")
    \/ set_filtering(TRUE) /\ tab_called("set_filtering", "")
    \/ toggle_bulk_select_mode /\ tab_called("toggle_bulk_select_mode", "")
    \/ toggle_item_selection /\ tab_called("toggle_item_selection", "")
    \/ set_logs(<<"c1 says">>) /\ tab_called("set_logs", "")
    \/ update_container_stats(<<"c", "1">>, <<"5", ".", "0", "%">>, "1.0MB")
            /\ tab_called("update_container_stats", "")

SpecTab == Init /\ [][NextTab]_vars

\* C24: set_tab(kind) leaves selected_tab = kind, selected_index 0,
\* scroll_offset 0, an empty filter text, is_filtering and bulk_select_mode
\* False and logs = ["Loading..."], and the five collections as they were.
C24_SetTabResetsTheView ==
    last_call.op = "set_tab"
        => /\ state.selected_tab = last_call.tab
           /\ state.selected_index = 0
           /\ state.scroll_offset = 0
           /\ state.filter_text = <<>>
           /\ ~state.is_filtering
           /\ ~state.bulk_select_mode
           /\ state.logs = <<"Loading...">>
           /\ state.containers = last_call.before.containers
           /\ state.images = last_call.before.images
           /\ state.volumes = last_call.before.volumes
           /\ state.networks = last_call.before.networks
           /\ state.composes = last_call.before.composes
           /\ last_call.bump = 1

\* set_tab ran on a filtered view in bulk mode with the second row selected
\* and scrolled into view
C24_Witness ==
    /\ last_call.op = "set_tab"
    /\ last_call.before.selected_index = 1
    /\ last_call.before.scroll_offset = 1
    /\ last_call.before.filter_text # <<>>
    /\ last_call.before.bulk_select_mode
    /\ last_call.before.selected_tab # last_call.tab
    /\ Len(state.containers) = 2

----------------------------------------------------------------------------
(* state.py 387-398: get_selected_item_id on the views the foreground      *)
(* brings the store to.                                                    *)

\* a call on the store, with what it returned (if anything)
selected_called(op, result) ==
    /\ version' <= MaxSelectedVersion
    /\ last_call' = [op |-> op, bump |-> version' - version,
                     changed |-> state' # state, result |-> result]
    /\ UNCHANGED <<now, snap_vars, cache_vars, thread_vars, fg_vars, worker_vars>>

NextSelected ==
    \/ /\ UNCHANGED <<state, version>>
       /\ selected_called("get_selected_item_id", get_selected_item_id(state))
    \/ /\ state.containers = <<>>
       /\ update_containers(<<fetched_container(<<"c", "1">>, <<"a", "b">>, running, <<"B">>),
                              fetched_container(<<"c", "2">>, <<"A">>, running, <<"d">>)>>)
       /\ selected_called("update_containers", <<>>)
    \/ \E kind \in AllKinds \ {"containers"} :
            /\ collection(state, IF kind = "composes" THEN "compose" ELSE kind) = <<>>
            /\ update_kind(kind, provided(kind))
            /\ selected_called("update_" \o kind, <<>>)
    \/ \E t \in Tabs : set_tab(t) /\ selected_called("set_tab", <<>>)
    \/ \E d \in Deltas :
            move_selection(d, screen.page_height) /\ selected_called("move_selection", <<>>)
    \/ \E t \in {<<>>, <<"B">>, <<"d">>} :
            set_filter_text(t) /\ selected_called("set_filter_text", <<>>)
    \/ cycle_sort_mode /\ selected_called("cycle_sort_mode", <<>>)

SpecSelected == Init /\ [][NextSelected]_vars

\* the rows of the active tab as the list pane shows them
active_projection == get_filtered_list_unlocked(state, state.selected_tab)

\* C25: get_selected_item_id() returns the id (containers, images, networks)
\* or the name (volumes, compose) of the row at selected_index of the
\* filtered, sorted projection of the active tab, and None when
\* selected_index is no position of that projection.
C25_SelectedIdIsTheRowsKey ==
    last_call.op = "get_selected_item_id"
        => IF state.selected_index \in 0..(Len(active_projection) - 1)
           THEN LET item == active_projection[state.selected_index + 1]
                IN  last_call.result =
                        << IF state.selected_tab \in {"containers", "images", "networks"}
                           THEN item.id ELSE item.name >>
           ELSE last_call.result = <<>>

\* the call returned the key of a row that is not at that position of the
\* stored list, under a filter
C25_Witness ==
    /\ last_call.op = "get_selected_item_id"
    /\ state.selected_tab = "containers"
    /\ state.filter_text # <<>>
    /\ Len(active_projection) < Len(state.containers)
    /\ last_call.result # <<>>
    /\ last_call.result # <<state.containers[state.selected_index + 1].id>>

----------------------------------------------------------------------------
(* state.py 77-84: update_container_stats with ids that are and are not    *)
(* stored.                                                                 *)

\* a call on the store, with the id and metrics passed (if any) and the
\* state before it
metric_called(op, container_id, stat) ==
    /\ version' <= MaxMetricVersion
    /\ last_call' = [op |-> op, bump |-> version' - version,
                     changed |-> state' # state, container_id |-> container_id,
                     cpu |-> stat[1], ram |-> stat[2], before |-> state]
    /\ UNCHANGED <<now, snap_vars, cache_vars, thread_vars, fg_vars, worker_vars>>

MetricIds == { <<"c", "1">>, <<"c", "2">>, <<"c", "3">> }
MetricStats == StatPool \cup { << <<"9", ".", "0", "%">>, "2.0MB" >> }

NextMetric ==
    \/ \E id \in MetricIds, stat \in MetricStats :
            /\ update_container_stats(id, stat[1], stat[2])
            /\ metric_called("update_container_stats", id, stat)
    \/ \E l \in fetched_lists(ContainerPool, "containers") :
            /\ update_containers(l)
            /\ metric_called("update_containers", <<>>, <<no_stat, "--">>)
    \/ toggle_item_selection
            /\ metric_called("toggle_item_selection", <<>>, <<no_stat, "--">>)
    \/ \E t \in {"containers", "images"} :
            set_tab(t) /\ metric_called("set_tab", <<>>, <<no_stat, "--">>)

SpecMetric == Init /\ [][NextMetric]_vars

\* C26: update_container_stats(id, cpu, ram) with an id that is not stored
\* changes no field and keeps the version; with a stored id it sets
\* cpu_percent and ram_usage of that container and changes nothing else.
C26_MetricUpdateTouchesOnlyItsContainer ==
    last_call.op = "update_container_stats"
        => LET before == last_call.before
               stored == \E i \in 1..Len(before.containers) :
                            before.containers[i].id = last_call.container_id
           IN  IF stored
               THEN /\ state = [before EXCEPT !.containers = state.containers]
                    /\ Len(state.containers) = Len(before.containers)
                    /\ \A i \in 1..Len(before.containers) :
                        state.containers[i] =
                            IF before.containers[i].id = last_call.container_id
                            THEN [before.containers[i] EXCEPT
                                    !.cpu_percent = last_call.cpu,
                                    !.ram_usage = last_call.ram]
                            ELSE before.containers[i]
               ELSE /\ state = before
                    /\ last_call.bump = 0

\* a call with an id that is not among the two stored containers, both of
\* which carry metrics
C26_Witness ==
    /\ last_call.op = "update_container_stats"
    /\ Len(state.containers) = 2
    /\ \A i \in 1..2 : /\ state.containers[i].id # last_call.container_id
                       /\ state.containers[i].cpu_percent # no_stat

----------------------------------------------------------------------------
(* cache.py 118-124: invalidate_container_stats beside the entries         *)
(* get_container_stats and get_containers cache.                           *)

\* container ids, one of them the start of another
StatsIds == { <<"c", "1">>, <<"c", "1", "2">>, <<"c", "2">> }

\* the key @cached(key_prefix="container_stats") builds for an id
stats_key(container_id) == k_container_stats \o <<":">> \o container_id

CacheManager_invalidate_container_stats(container_id) ==
    /\ cache' = without_container_stats(cache, container_id)
    /\ cache_call' = [op |-> "invalidate_container_stats", key |-> container_id,
                      value |-> <<>>, before |-> <<cache>>, result |-> <<>>]
    /\ UNCHANGED cache_stats

NextStatsCache ==
    \/ \E id \in StatsIds : CacheManager_invalidate_container_stats(id) /\ cache_only
    \/ \E id \in StatsIds, o \in TtlOverrides :
            CacheManager_set(stats_key(id), <<>>, o) /\ cache_only
    \/ \E v \in CacheValues :
            CacheManager_set(k_containers \o <<":">>, v, <<>>) /\ cache_only
    \/ Tick

SpecStatsCache == Init /\ [][NextStatsCache]_vars

\* C28: invalidate_container_stats(id) removes the entry under
\* container_stats:<id> and leaves every other entry in the cache, also
\* when id is the start of another container's id.
C28_InvalidatesOnlyThatContainer ==
    cache_call.op = "invalidate_container_stats"
        => cache = without(cache_call.before[1], {stats_key(cache_call.key)})

----------------------------------------------------------------------------
(* cache.py 88-102 and 59-69: the TTL CacheManager.set stores.             *)

\* keys of table kinds, one that stops short of a table kind, one of no kind
TtlKeys ==
    { k_containers \o <<":">>,
      k_container_stats \o <<":", "c", "1">>,
      k_images \o <<":">>,
      k_logs \o <<":", "c", "1">>,
      <<"c", "o", "n", "t", "a", "i", "n", "e", "r", ":">>,
      <<"x">> }

\* ttl_override: None, 0 and 3.0 seconds
TtlArguments == { <<>>, <<0>>, <<6>> }

\* a call on the cache, with the ttl_override passed
ttl_called(ttl_override) ==
    /\ last_call' = [op |-> cache_call'.op, bump |-> 0, changed |-> FALSE,
                     ttl_override |-> ttl_override]
    /\ UNCHANGED <<state, version, now, snap_vars, thread_vars, fg_vars, worker_vars>>

NextTtl ==
    \/ \E k \in TtlKeys, o \in TtlArguments :
            CacheManager_set(k, <<>>, o) /\ ttl_called(o)
    \/ \E k \in TtlKeys : CacheManager_get(k) /\ ttl_called(<<>>)
    \/ \E p \in {<<k_containers>>, <<k_container_stats>>} :
            CacheManager_invalidate(p) /\ ttl_called(<<>>)

SpecTtl == Init /\ [][NextTtl]_vars

\* the table rows whose resource type starts the key
matching_rows(key) ==
    { i \in 1..Len(ttl_config) : startswith(key, ttl_config[i][1]) }

\* the rows with the longest such resource type
longest_rows(key) ==
    { i \in matching_rows(key) :
        \A j \in matching_rows(key) : Len(ttl_config[j][1]) <= Len(ttl_config[i][1]) }

\* C29: the TTL set stores is the ttl_override when one is given (0
\* included), else that of the longest table prefix of the key, else 2.0;
\* whichever order the table is walked in.
C29_TtlIsOverrideThenLongestPrefixThenDefault ==
    cache_call.op = "set"
        => LET ttl == cache[cache_call.key].ttl
               rows == matching_rows(cache_call.key)
           IN  IF last_call.ttl_override # <<>> THEN ttl = last_call.ttl_override[1]
               ELSE IF rows = {} THEN ttl = 4
               ELSE /\ \A i \in longest_rows(cache_call.key) : ttl = ttl_config[i][2]
                    /\ Cardinality(rows) = 1
                    /\ \A i, j \in 1..Len(ttl_config) :
                            i # j => ~startswith(ttl_config[i][1], ttl_config[j][1])

\* set stored TTL 0 from the override under a key whose kind has a table row
C29_Witness ==
    /\ cache_call.op = "set"
    /\ last_call.ttl_override = <<0>>
    /\ matching_rows(cache_call.key) # {}
    /\ cache[cache_call.key].ttl = 0
    /\ \E k \in DOMAIN cache : cache[k].ttl = 4 /\ matching_rows(k) = {}
    /\ \E k \in DOMAIN cache : cache[k].ttl = 4 /\ startswith(k, k_container_stats)

----------------------------------------------------------------------------
(* cache.py 126-143: cleanup_expired on caches of entries of several ages. *)

NextCleanup ==
    \/ cleanup_expired /\ cache_only
    \/ \E k \in CacheKeys, o \in TtlOverrides :
            CacheManager_set(k, <<>>, o) /\ cache_only
    \/ CacheManager_set(k_images \o <<":">>, <<>>, <<>>) /\ cache_only
    \/ Tick

SpecCleanup == Init /\ [][NextCleanup]_vars

\* C30: cleanup_expired() removes the entries whose age exceeds their TTL
\* at the time of the call and no other, leaves the others as they were,
\* returns the number removed, and leaves no expired entry behind.
C30_CleanupRemovesExactlyTheExpired ==
    cache_call.op = "cleanup_expired"
        => LET before == cache_call.before[1]
               expired == { k \in DOMAIN before :
                                now - before[k].timestamp > before[k].ttl }
           IN  /\ DOMAIN cache = DOMAIN before \ expired
               /\ \A k \in DOMAIN cache : cache[k] = before[k]
               /\ cache_call.result = <<Cardinality(expired)>>
               /\ \A k \in DOMAIN cache : now - cache[k].timestamp <= cache[k].ttl

\* a sweep that removed an entry and kept one whose age equals its TTL
C30_Witness ==
    /\ cache_call.op = "cleanup_expired"
    /\ cache_call.result # <<0>>
    /\ \E k \in DOMAIN cache :
            cache[k].ttl > 0 /\ now - cache[k].timestamp = cache[k].ttl

----------------------------------------------------------------------------
(* state.py 251-257: set_filter_text on views whose selection has moved.   *)

\* a call on the store, with the text passed (if any) and the state before it
clamp_called(op, text) ==
    /\ version' <= MaxClampVersion
    /\ last_call' = [op |-> op, bump |-> version' - version,
                     changed |-> state' # state, text |-> text, before |-> state]
    /\ UNCHANGED <<now, snap_vars, cache_vars, thread_vars, fg_vars, worker_vars>>

NextClamp ==
    \/ \E t \in SearchTexts \cup {<<"z">>} :
            set_filter_text(t) /\ clamp_called("set_filter_text", t)
    \/ /\ state.containers = <<>>
       /\ update_containers(named_containers)
       /\ clamp_called("update_containers", <<>>)
    \/ \E d \in Deltas :
            move_selection(d, screen.page_height) /\ clamp_called("move_selection", <<>>)
    \/ \E t \in {"containers", "images"} :
            set_tab(t) /\ clamp_called("set_tab", <<>>)

SpecClamp == Init /\ [][NextClamp]_vars

\* C31: set_filter_text(text) stores text as the filter; selected_index
\* stays when it is a position of the new projection of the active tab and
\* becomes max(0, len(projection) - 1) otherwise; the call returns.
C31_FilterTextReclampsTheIndex ==
    last_call.op = "set_filter_text"
        => LET before == last_call.before
               length == Len(current_projection)
           IN  /\ state.filter_text = last_call.text
               /\ state.selected_index =
                    IF before.selected_index \in 0..(length - 1)
                    THEN before.selected_index
                    ELSE max(0, length - 1)
               /\ state = [before EXCEPT !.filter_text = state.filter_text,
                                         !.selected_index = state.selected_index]
               /\ last_call.bump = 1

\* a filter that leaves two of three rows, set with the third row selected
C31_Witness ==
    /\ last_call.op = "set_filter_text"
    /\ last_call.before.selected_index = 2
    /\ Len(current_projection) = 2
    /\ state.selected_index = 1

----------------------------------------------------------------------------
(* state.py 269-299 and 259-267: the order of the projection of every kind *)
(* in every sort mode.                                                     *)

\* three containers, two of them of one name and one status
SortContainers ==
    { fetched_container(<<"c", "1">>, <<"b">>, running, <<"B">>),
      fetched_container(<<"c", "2">>, <<"a">>, exited, <<"d">>),
      fetched_container(<<"c", "3">>, <<"b">>, running, <<"d">>) }

\* the cpu texts get_container_stats returns for 10.0 and 5.0 percent
SortCpus == { <<"1", "0", ".", "0", "%">>, <<"5", ".", "0", "%">> }

\* what the daemon holds of the other kinds, not in the order of their keys
sort_provided(kind) ==
    CASE kind = "images" -> << ImageInfo(<<"b">>, <<"b">>, << <<"d">> >>),
                               ImageInfo(<<"a">>, <<"a">>, << <<"d">> >>) >>
      [] kind = "volumes" -> << VolumeInfo(<<"d">>), VolumeInfo(<<"B">>) >>
      [] kind = "networks" -> << NetworkInfo(<<"n", "1">>, <<"d">>),
                                 NetworkInfo(<<"n", "2">>, <<"b">>) >>
      [] kind = "composes" -> << ComposeInfo(<<"d">>, "running"),
                                 ComposeInfo(<<"a">>, "running") >>

sort_called(op) ==
    /\ version' <= MaxSortVersion
    /\ last_call' = [op |-> op, bump |-> version' - version, changed |-> state' # state]
    /\ UNCHANGED <<now, snap_vars, cache_vars, thread_vars, fg_vars, worker_vars>>

NextSort ==
    \/ \E l \in fetched_lists(SortContainers, "containers") :
            update_containers(l) /\ sort_called("update_containers")
    \/ \E kind \in AllKinds \ {"containers"} :
            /\ collection(state, IF kind = "composes" THEN "compose" ELSE kind) = <<>>
            /\ update_kind(kind, sort_provided(kind))
            /\ sort_called("update_" \o kind)
    \/ \E c \in SortContainers, cpu \in SortCpus :
            /\ update_container_stats(c.id, cpu, "1.0MB")
            /\ sort_called("update_container_stats")
    \/ cycle_sort_mode /\ sort_called("cycle_sort_mode")
    \/ \E t \in {<<>>, <<"d">>} : set_filter_text(t) /\ sort_called("set_filter_text")

SpecSort == Init /\ [][NextSort]_vars

\* the projection of a kind as the store computes it now
projection_of(tab) == get_filtered_list_unlocked(state, tab)

\* the first position of an item in the stored collection of a kind
raw_position(tab, item) ==
    LET raw == collection(state, tab)
    IN  CHOOSE i \in 1..Len(raw) : raw[i] = item /\ \A j \in 1..(i - 1) : raw[j] # item

\* float(cpu_percent.strip('%')) succeeds
cpu_parsed(item) == get_cpu(item) >= 0

\* a before b is an allowed order of two rows of a kind in the current mode
in_order(tab, a, b) ==
    IF tab = "containers"
    THEN CASE state.sort_mode = "name" -> ~str_lt(b.name, a.name)
           [] state.sort_mode = "status" -> ~str_lt(b.status, a.status)
           [] state.sort_mode = "cpu" ->
                /\ cpu_parsed(b) => cpu_parsed(a)
                /\ (cpu_parsed(a) /\ cpu_parsed(b)) => get_cpu(a) >= get_cpu(b)
    ELSE IF tab = "images" THEN ~str_lt(b.id, a.id)
    ELSE ~str_lt(b.name, a.name)

\* C32: the projection of every kind is made of items of the stored
\* collection, each once; containers are ordered by name, by status, or by
\* parsed cpu_percent descending with the unparsable values last, the other
\* kinds by name (images by id) in every sort mode; rows of equal keys keep
\* the order of the stored collection.
C32_ProjectionIsAStableSort ==
    \A tab \in Tabs :
        LET p == projection_of(tab)
            raw == collection(state, tab)
        IN  /\ \A i \in 1..Len(p) : \E k \in 1..Len(raw) : raw[k] = p[i]
            /\ \A i, j \in 1..Len(p) : p[i] = p[j] => i = j
            /\ state.filter_text = <<>> => Len(p) = Len(raw)
            /\ \A i, j \in 1..Len(p) :
                i < j => /\ in_order(tab, p[i], p[j])
                         /\ in_order(tab, p[j], p[i])
                                => raw_position(tab, p[i]) < raw_position(tab, p[j])

\* in mode cpu three containers are shown 10.0, 5.0, "--" against the
\* stored order, and the two networks by name against their ids
C32_Witness ==
    /\ state.sort_mode = "cpu"
    /\ Len(projection_of("containers")) = 3
    /\ projection_of("containers")[1].cpu_percent = <<"1", "0", ".", "0", "%">>
    /\ projection_of("containers")[2].cpu_percent = <<"5", ".", "0", "%">>
    /\ ~cpu_parsed(projection_of("containers")[3])
    /\ projection_of("containers") # state.containers
    /\ last_call.op = "cycle_sort_mode"

----------------------------------------------------------------------------
(* state.py 510-522 and 455-463: the buffer of the LogsWorker on a stream  *)
(* of more than max_buffer_size lines.                                     *)

\* the n-th line of the stream of a container; readline() of the scenario
\* above with the lines told apart
nth_line(container, n) == readline(container) \o " " \o ToString(n)

\* a step of the worker on a long stream, with the buffer before it
buffer_called(op) ==
    /\ last_call' = [op |-> op, bump |-> version' - version,
                     changed |-> state' # state,
                     before |-> logs_worker.log_buffer]
    /\ UNCHANGED <<now, snap_vars, cache_vars, thread_vars, fg_vars,
                   list_worker, stats_worker>>

buffer_read_line ==
    /\ process_alive(logs_worker)
    /\ logs_worker.streams[logs_worker.process[1]].read < MaxBufferReads
    /\ read_line(nth_line(held_container,
                          logs_worker.streams[logs_worker.process[1]].read + 1))
    /\ buffer_called("read_line")

buffer_scroll == scroll_after_read /\ buffer_called("scroll_logs")

NextBuffer ==
    \/ buffer_read_line
    \/ buffer_scroll
    \/ logs_get_snapshot
    \/ logs_target_id
    \/ logs_switch
    \/ logs_reset
    \/ logs_attach
    \/ /\ state.containers = <<>>
       /\ update_containers(provided("containers"))
       /\ logs_called("update_containers")
       /\ UNCHANGED worker_vars

SpecBuffer == Init /\ [][NextBuffer]_vars

\* the lines read so far from the stream held, 0 without one
lines_read ==
    IF logs_worker.process = <<>> THEN 0
    ELSE logs_worker.streams[logs_worker.process[1]].read

\* C33: log_buffer never holds more than max_buffer_size lines; it holds
\* the newest lines read, in the order read, so a line appended to a full
\* buffer pushes out the oldest; the list a read publishes through set_logs
\* is the buffer at that moment.
C33_BufferKeepsTheNewestLines ==
    LET buffer == logs_worker.log_buffer
    IN  /\ Len(buffer) <= max_buffer_size
        /\ Len(buffer) = min(lines_read, max_buffer_size)
        /\ \A i \in 1..Len(buffer) :
                buffer[i] = nth_line(held_container, lines_read - Len(buffer) + i)
        /\ last_call.op = "read_line"
            => /\ state.logs = buffer
               /\ buffer = IF Len(last_call.before) = max_buffer_size
                           THEN Append(Tail(last_call.before), buffer[Len(buffer)])
                           ELSE Append(last_call.before, buffer[Len(buffer)])

\* a line was appended to a full buffer
C33_Witness ==
    /\ last_call.op = "read_line"
    /\ Len(last_call.before) = max_buffer_size
    /\ lines_read > max_buffer_size
    /\ Len(logs_worker.log_buffer) = max_buffer_size
    /\ logs_worker.log_buffer[1] # last_call.before[1]

----------------------------------------------------------------------------
(* main.py 421-426 with state.py 420, 468, 528-534 and 550, 557: the       *)
(* workers after the foreground has cleared their running flags.           *)

\* main.py 423-425: the key q
quit ==
    /\ list_worker.running \/ logs_worker.running \/ stats_worker.running
    /\ list_worker' = [list_worker EXCEPT !.running = FALSE]
    /\ logs_worker' = [logs_worker EXCEPT !.running = FALSE]
    /\ stats_worker' = [stats_worker EXCEPT !.running = FALSE]
    /\ UNCHANGED <<store_vars, now, snap_vars, cache_vars, thread_vars, fg_vars>>

\* state.py 420: while self.running is false, run returns
list_exit ==
    /\ list_worker.pc = "loop"
    /\ ~list_worker.running
    /\ list_worker' = [list_worker EXCEPT !.pc = "done"]
    /\ list_local

\* state.py 550: while self.running is false, run returns
stats_exit ==
    /\ stats_worker.pc = "usage"
    /\ ~stats_worker.running
    /\ stats_worker' = [stats_worker EXCEPT !.pc = "done"]
    /\ UNCHANGED <<store_vars, now, snap_vars, cache_vars, thread_vars, fg_vars,
                   list_worker, logs_worker>>

\* the exit of the logs worker that leaves the process it holds alone
logs_exit_without_terminate ==
    /\ logs_worker.pc = "loop"
    /\ ~logs_worker.running
    /\ logs_worker' = [logs_worker EXCEPT !.pc = "done"]
    /\ logs_local

\* state.py 468 and 529-534: while self.running is false; if self.process:
\* self.process.terminate()
logs_exit ==
    /\ logs_worker.pc = "loop"
    /\ ~logs_worker.running
    /\ logs_worker' =
        IF logs_worker.process = <<>>
        THEN [logs_worker EXCEPT !.pc = "done"]
        ELSE LET p == logs_worker.process[1]
             IN  [logs_worker EXCEPT
                    !.pc = "done",
                    !.streams[p].terminated = TRUE,
                    !.streams[p].state =
                        IF @ = "running" THEN "terminating" ELSE @]
    /\ logs_local

\* the threads of the scenario; the daemon answers every call
list_thread ==
    \/ list_check_for_updates /\ ~state'.update_available
    \/ list_worker.counter < MaxStopTicks /\ list_test_flag
    \/ \E kind \in AllKinds : list_fetch(kind) /\ ~last_call'.raised
    \/ \E kind \in {"containers", "images"} : list_skip(kind)
    \/ list_cleanup
    \/ list_tick
    \/ list_exit

logs_thread ==
    \/ logs_get_snapshot
    \/ logs_target_id
    \/ logs_switch
    \/ logs_reset
    \/ logs_attach
    \/ logs_poll
    \/ logs_no_data
    \/ logs_read_line
    \/ logs_scroll
    \/ logs_exit

stats_thread ==
    \/ stats_usage /\ state'.self_usage # ""
    \/ stats_snapshot
    \/ stats_container /\ state'.containers[1].cpu_percent # no_stat
    \/ stats_sleep
    \/ stats_exit

NextStop ==
    \/ quit
    \/ list_thread
    \/ logs_thread
    \/ stats_thread

SpecStop == Init /\ [][NextStop]_vars

\* every worker thread keeps being scheduled
SpecStopFair ==
    /\ SpecStop
    /\ WF_vars(list_thread)
    /\ WF_vars(logs_thread)
    /\ WF_vars(stats_thread)

stop_requested ==
    ~list_worker.running /\ ~logs_worker.running /\ ~stats_worker.running

workers_left ==
    list_worker.pc = "done" /\ logs_worker.pc = "done" /\ stats_worker.pc = "done"

\* a worker that has left its loop makes no call on the store, and a worker
\* whose flag is cleared begins no further iteration
no_work_after_stop ==
    /\ workers_left => UNCHANGED <<state, version>>
    /\ list_worker.pc = "done" => list_worker' = list_worker
    /\ logs_worker.pc = "done" => logs_worker' = logs_worker
    /\ stats_worker.pc = "done" => stats_worker' = stats_worker
    /\ (~list_worker.running /\ list_worker.pc = "loop")
            => list_worker'.pc \in {"loop", "done"}
    /\ (~logs_worker.running /\ logs_worker.pc = "loop")
            => logs_worker'.pc \in {"loop", "done"}
    /\ (~stats_worker.running /\ stats_worker.pc = "usage")
            => stats_worker'.pc \in {"usage", "done"}

\* no stream is left running without terminate() having been called on it
streams_terminated ==
    \A i \in 1..Len(logs_worker.streams) :
        logs_worker.streams[i].state = "running" => logs_worker.streams[i].terminated

----------------------------------------------------------------------------
(* The two locks.  StateManager._lock (state.py 49) and CacheManager._lock  *)
(* (cache.py 51) are RLocks.  Every StateManager method and every           *)
(* CacheManager method is one "with self._lock:" block; main takes the      *)
(* state lock by acquire_lock / release_lock around the modal.  A          *)
(* statement of a thread's loop that takes a lock is written as the        *)
(* sequence of its lock operations in program order, with the provider     *)
(* calls and waits between them.                                            *)

LockThreads == {"main", "list", "logs", "stats"}

\* a StateManager method: with self._lock
with_state == <<"with", "state">>
\* a CacheManager method: with self._lock
with_cache == <<"with", "cache">>
\* something that takes neither lock: a provider call, a wait, a draw
no_lock == <<"call", "none">>

\* cache.py 180-196, the @cached wrapper: cache_manager.get; on a miss
\* func(self, ...) and cache_manager.set, both outside the cache's lock
cached_locks(hit) ==
    IF hit THEN <<with_cache>> ELSE <<with_cache, no_lock, with_cache>>

\* state.py 413-445, the statements of ListWorker.run that take a lock:
\* update_containers(get_containers()) and the same for volumes, networks
\* and composes, which are cached; update_images(get_images()) and
\* set_update_available after check_for_updates(), which are not;
\* cache_manager.cleanup_expired()
ListWorker_locks ==
    {cached_locks(hit) \o <<with_state>> : hit \in BOOLEAN}
        \cup {<<no_lock, with_state>>, <<with_cache>>}

\* state.py 468-526, the statements of LogsWorker.run that take a lock:
\* get_snapshot, get_selected_item_id, set_logs and scroll_logs, after
\* get_log_stream_process or readline or nothing
LogsWorker_locks ==
    {<<with_state>>, <<no_lock, with_state>>}

\* state.py 548-567, the statements of StatsWorker.run that take a lock:
\* update_self_usage(get_self_usage()), update_container_stats(c.id,
\* *get_container_stats(c.id)), get_snapshot
StatsWorker_locks ==
    {cached_locks(hit) \o <<with_state>> : hit \in BOOLEAN} \cup {<<with_state>>}

\* main.py 437-464 with a cached provider call made inside the modal
main_locks_fetching_in_modal(key) ==
    CASE key = "render" -> <<with_state, with_state>>
      [] key = "mutator" -> <<with_state>>
      [] key = "N" -> <<<<"acquire", "state">>, no_lock, with_cache, with_state,
                        <<"release", "state">>>>
      [] key = "Y" -> <<<<"acquire", "state">>, no_lock, with_cache,
                        <<"release", "state">>, no_lock,
                        <<"release", "state">>, <<"return", "state">>>>
      [] key = "action" -> <<with_state, no_lock, with_cache, with_cache>>

\* main.py 378-464 and 545-585, the statements of the loop that take a lock:
\* get_version and get_snapshot; a mutator for a key; the modal answered N
\* (acquire_lock, getch, set_update_available, release_lock in finally); the
\* modal answered Y (acquire_lock, getch, release_lock, perform_update,
\* return, release_lock in finally, and what follows it); an action
\* (get_selected_item_id, the backend call, its two invalidations)
main_locks(key) ==
    CASE key = "render" -> <<with_state, with_state>>
      [] key = "mutator" -> <<with_state>>
      [] key = "N" -> <<<<"acquire", "state">>, no_lock, with_state,
                        <<"release", "state">>>>
      [] key = "Y" -> <<<<"acquire", "state">>, no_lock,
                        <<"release", "state">>, no_lock,
                        <<"release", "state">>, <<"return", "state">>>>
      [] key = "action" -> <<with_state, no_lock, with_cache, with_cache>>

MainKeys == {"render", "mutator", "N", "Y", "action"}

\* the statements a thread can come to next
Programs(t) ==
    CASE t = "main" -> {main_locks(key) : key \in MainKeys}
      [] t = "list" -> ListWorker_locks
      [] t = "logs" -> LogsWorker_locks
      [] t = "stats" -> StatsWorker_locks

\* a thread between two statements of its loop
at_loop == [prog |-> <<>>, pc |-> 1, inside |-> FALSE, raised |-> FALSE]

InitLocks ==
    /\ state = AppState
    /\ version = 0
    /\ last_call = [op |-> "__init__", bump |-> 0, changed |-> FALSE]
    /\ now = 1
    /\ snapshot = <<>>
    /\ aliased = {}
    /\ cache = <<>>
    /\ cache_stats = [hits |-> 0, misses |-> 0, sets |-> 0, evictions |-> 0]
    /\ cache_call = [op |-> "__init__", key |-> <<>>, value |-> <<>>,
                     before |-> <<>>, result |-> <<>>]
    /\ docker = [status |-> exited, mutations |-> 0]
    /\ threads = [t \in LockThreads |-> at_loop]
    /\ lock = <<>>
    /\ cache_lock = <<>>
    /\ list_worker = ListWorker
    /\ logs_worker = LogsWorker
    /\ stats_worker = StatsWorker
    /\ screen = [page_height |-> 1, modal |-> "none"]
    /\ config = DefaultConfig

\* a lock holds its owner once per acquisition
lock_named(name) == IF name = "state" THEN lock ELSE cache_lock

\* threading.RLock: the owner, if any
holds(t, name) == lock_named(name) # <<>> /\ lock_named(name)[1] = t

\* RLock.acquire() returns: the lock is free or the caller owns it
RLock_free_for(t, name) == lock_named(name) = <<>> \/ holds(t, name)

\* RLock.release(): RuntimeError when the caller is not the owner
RLock_release(t, name) ==
    IF holds(t, name)
    THEN [lock |-> Tail(lock_named(name)), raised |-> FALSE]
    ELSE [lock |-> lock_named(name), raised |-> TRUE]

locks_become(name, l) ==
    /\ lock' = IF name = "state" THEN l ELSE lock
    /\ cache_lock' = IF name = "cache" THEN l ELSE cache_lock

lock_only ==
    UNCHANGED <<store_vars, now, snap_vars, cache_vars, docker, screen, config,
                worker_vars>>

running_pass(t) == threads[t].pc <= Len(threads[t].prog)

statement(t) == threads[t].prog[threads[t].pc]

\* the statement that follows
lock_pass(t) ==
    /\ threads[t].pc = Len(threads[t].prog) + 1
    /\ \E prog \in Programs(t) :
            threads' = [threads EXCEPT ![t] = [at_loop EXCEPT !.prog = prog]]
    /\ UNCHANGED <<lock, cache_lock>>
    /\ lock_only

\* "with self._lock:" entered, or acquire_lock()
lock_enter(t) ==
    /\ running_pass(t)
    /\ ~threads[t].inside
    /\ statement(t)[1] \in {"with", "acquire"}
    /\ RLock_free_for(t, statement(t)[2])
    /\ locks_become(statement(t)[2], <<t>> \o lock_named(statement(t)[2]))
    /\ threads' = [threads EXCEPT ![t] =
            IF statement(t)[1] = "with"
            THEN [threads[t] EXCEPT !.inside = TRUE]
            ELSE [threads[t] EXCEPT !.pc = @ + 1]]
    /\ lock_only

\* the end of the with block
lock_leave(t) ==
    /\ running_pass(t)
    /\ threads[t].inside
    /\ locks_become(statement(t)[2], RLock_release(t, statement(t)[2]).lock)
    /\ threads' = [threads EXCEPT ![t].inside = FALSE, ![t].pc = @ + 1]
    /\ lock_only

\* release_lock()
lock_release(t) ==
    /\ running_pass(t)
    /\ statement(t)[1] = "release"
    /\ locks_become(statement(t)[2], RLock_release(t, statement(t)[2]).lock)
    /\ threads' = [threads EXCEPT
            ![t].raised = RLock_release(t, statement(t)[2]).raised,
            ![t].pc = @ + 1]
    /\ lock_only

\* a statement that takes no lock
lock_call(t) ==
    /\ running_pass(t)
    /\ statement(t)[1] = "call"
    /\ threads' = [threads EXCEPT ![t].pc = @ + 1]
    /\ UNCHANGED <<lock, cache_lock>>
    /\ lock_only

\* main.py 453-459 and 581-584: return after the finally; a RuntimeError of
\* the release replaces it and the loop's handler calls set_message
lock_return(t) ==
    /\ running_pass(t)
    /\ statement(t)[1] = "return"
    /\ threads' = [threads EXCEPT ![t] =
            IF threads[t].raised
            THEN [at_loop EXCEPT !.prog = <<with_state, no_lock>>]
            ELSE [threads[t] EXCEPT !.prog = <<>>, !.pc = 2]]
    /\ UNCHANGED <<lock, cache_lock>>
    /\ lock_only

NextLocks ==
    \E t \in LockThreads :
        \/ lock_pass(t)
        \/ lock_enter(t)
        \/ lock_leave(t)
        \/ lock_release(t)
        \/ lock_call(t)
        \/ lock_return(t)

SpecLocks == InitLocks /\ [][NextLocks]_vars

\* the lock a thread is about to take
requests(t) ==
    IF running_pass(t) /\ ~threads[t].inside
       /\ statement(t)[1] \in {"with", "acquire"}
    THEN statement(t)[2] ELSE "none"

\* t cannot go on before u gives a lock back
waits_on(t, u) ==
    /\ requests(t) # "none"
    /\ holds(u, requests(t))
    /\ t # u

\* C35: no thread takes or requests one of the two locks while it holds the
\* other, in either order; no two threads wait on each other's lock, and
\* some thread can always take a step.
C35_LocksAreNeverNested ==
    /\ \A t \in LockThreads :
        /\ ~(holds(t, "state") /\ holds(t, "cache"))
        /\ holds(t, "state") => requests(t) # "cache"
        /\ holds(t, "cache") => requests(t) # "state"
    /\ \A t, u \in LockThreads : ~(waits_on(t, u) /\ waits_on(u, t))
    /\ \E t \in LockThreads : ~(\E u \in LockThreads : waits_on(t, u))

\* main waits in the modal with the state lock, a worker waits for it, and
\* another worker is inside the cache
C35_Witness ==
    /\ holds("main", "state")
    /\ statement("main") = no_lock
    /\ waits_on("list", "main")
    /\ holds("stats", "cache")
    /\ waits_on("logs", "main")

----------------------------------------------------------------------------
(* state.py 67-124: the five collection replaces, called by the list       *)
(* worker with the lists it fetched, beside a foreground that changes the   *)
(* tab and moves the selection.                                             *)

MaxReplaceVersion == 5

ReplaceKinds == {"containers", "images", "volumes", "networks", "composes"}

\* the tab of a kind, as set_tab and the projection name it
kind_tab(kind) == IF kind = "composes" THEN "compose" ELSE kind

\* what the provider can return for a kind
ReplaceLists(kind) ==
    CASE kind = "containers" -> fetched_lists(ContainerPool, "containers")
      [] kind = "images" ->
            fetched_lists(ImagePool \cup {ImageInfo(<<"i", "2">>, <<"i", "2">>,
                                                    << <<"x">> >>)}, "images")
      [] kind = "volumes" -> fetched_lists(VolumePool, "volumes")
      [] kind = "networks" -> fetched_lists(NetworkPool, "networks")
      [] kind = "composes" -> fetched_lists(ComposePool, "compose")

replace_called(op, kind, items) ==
    /\ version' <= MaxReplaceVersion
    /\ last_call' = [op |-> op, bump |-> version' - version,
                     changed |-> state' # state, kind |-> kind, items |-> items,
                     before |-> state]
    /\ UNCHANGED <<now, snap_vars, cache_vars, thread_vars, fg_vars, worker_vars>>

NextReplace ==
    \/ \E kind \in ReplaceKinds : \E items \in ReplaceLists(kind) :
            update_kind(kind, items) /\ replace_called("update", kind, items)
    \/ \E t \in {"containers", "images"} :
            set_tab(t) /\ replace_called("set_tab", "", <<>>)
    \/ move_selection(1, screen.page_height)
            /\ replace_called("move_selection", "", <<>>)

SpecReplace == Init /\ [][NextReplace]_vars

\* the identity keys of a list, in its order
keys_of(kind, l) == [i \in 1..Len(l) |-> identity(kind_tab(kind), l[i])]

\* C36: update_<kind>(items) leaves the kind's collection with exactly the
\* identity keys of items, bumps the version once, and changes no other
\* field of the state: not the other four collections, not the tab, the
\* index, the scroll offset, the filter, the sort mode, the bulk mode, the
\* logs or the message.
C36_ReplaceChangesOnlyItsCollection ==
    last_call.op = "update"
        => /\ keys_of(last_call.kind, state[last_call.kind])
                = keys_of(last_call.kind, last_call.items)
           /\ state = [last_call.before EXCEPT
                            ![last_call.kind] = state[last_call.kind]]
           /\ last_call.bump = 1

\* a replace of the images under the selection: the second of two stored
\* images was selected, the new list has one image, and containers are stored
C36_Witness ==
    /\ last_call.op = "update"
    /\ last_call.kind = "images"
    /\ Len(last_call.before.images) = 2
    /\ Len(last_call.items) = 1
    /\ last_call.before.selected_tab = "images"
    /\ last_call.before.selected_index = 1
    /\ state.selected_index = 1

----------------------------------------------------------------------------
(* state.py 468-494: LogsWorker.run beside a list worker that has          *)
(* delivered containers and images and a foreground that changes the tab.  *)
(* The worker reads the tab with get_snapshot and the selected id with     *)
(* get_selected_item_id, two calls that take the lock one after the other. *)

\* ListWorker.run, line 433: update_images(get_images())
images_arrive ==
    /\ state.images = <<>>
    /\ \E l \in fetched_lists(ImagePool, "images") :
            l # <<>> /\ update_images(l)
    /\ logs_called("update_images")
    /\ UNCHANGED worker_vars

NextAttach ==
    \/ LogsWorker_run
    \/ logs_foreground
    \/ images_arrive

SpecAttach == Init /\ [][NextAttach]_vars

\* C37: every stream the logs worker has opened is the stream of a
\* container: the id it passed to get_log_stream_process is the id of a
\* container, never that of an image.
C37_LogsAttachOnlyToContainers ==
    \A i \in 1..Len(logs_worker.streams) :
        \E c \in ContainerPool : c.id = logs_worker.streams[i].container

----------------------------------------------------------------------------
(* state.py 430-432 and 556-561: a refresh of the list worker, whose       *)
(* get_containers() goes through the @cached wrapper outside the store's   *)
(* lock and whose update_containers follows, beside the stats worker's     *)
(* update_container_stats for a container it found in its snapshot.        *)

MaxMeasureVersion == 4

\* a call on the store; refresh_pending tells whether the list worker held
\* a fetched list, or was fetching one, when a measurement was stored
measure_called(op, items) ==
    /\ version' <= MaxMeasureVersion
    /\ last_call' = [op |-> op, bump |-> version' - version,
                     changed |-> state' # state, items |-> items,
                     refresh_pending |->
                        IF op = "update_container_stats"
                        THEN threads["ListWorker"].pc # "idle"
                             \/ threads["ListWorker"].returned # <<>>
                        ELSE last_call.op = "update_container_stats"
                             /\ last_call.refresh_pending]
    /\ UNCHANGED <<now, snap_vars, cache_vars, docker, fg_vars, worker_vars>>

\* line 431: containers = self.backend.get_containers(), begun
refresh_get ==
    /\ threads["ListWorker"].returned = <<>>
    /\ cached_get("ListWorker")

\* line 432: self.state_manager.update_containers(containers)
refresh_store ==
    /\ threads["ListWorker"].pc = "idle"
    /\ threads["ListWorker"].returned # <<>>
    /\ update_containers(threads["ListWorker"].returned[1].list)
    /\ threads' = [threads EXCEPT !["ListWorker"].returned = <<>>]
    /\ measure_called("update_containers", threads["ListWorker"].returned[1].list)

\* lines 556-561: update_container_stats(c.id, cpu, ram) for a container of
\* the worker's snapshot
measure(stat) ==
    /\ state.containers # <<>>
    /\ update_container_stats(state.containers[1].id, stat[1], stat[2])
    /\ UNCHANGED threads
    /\ measure_called("update_container_stats", <<>>)

NextMeasure ==
    \/ refresh_get
    \/ cached_call("ListWorker")
    \/ cached_set("ListWorker")
    \/ refresh_store
    \/ \E stat \in MetricStats : measure(stat)
    \/ start_container_start
    \/ start_container_invalidate
    \/ Tick

SpecMeasure == Init /\ [][NextMeasure]_vars

\* an update_containers keeps every measurement the store holds
measurement_kept ==
    last_call'.op = "update_containers"
        => \A i \in 1..Len(state.containers) :
                state.containers[i].cpu_percent # no_stat
                    => \E j \in 1..Len(state'.containers) :
                        /\ state'.containers[j].id = state.containers[i].id
                        /\ state'.containers[j].cpu_percent = state.containers[i].cpu_percent
                        /\ state'.containers[j].ram_usage = state.containers[i].ram_usage

\* C39: whichever of update_container_stats(id, cpu, ram) and the refresh's
\* update_containers comes first, the fetch having been made outside the
\* lock, the stored container carries the measurement when both are done:
\* update_containers never puts "--" over a measurement.
C39_MeasurementSurvivesRefresh ==
    /\ [][measurement_kept]_vars
    /\ [](last_call.op = "update_containers" /\ last_call.refresh_pending
            => /\ state.containers # <<>>
               /\ state.containers[1].cpu_percent # no_stat
               /\ state.containers[1].ram_usage # "--")

\* a list fetched without the measurement, held while the measurement was
\* stored, and stored after it
C39_Witness ==
    /\ last_call.op = "update_containers"
    /\ last_call.refresh_pending
    /\ last_call.items[1].cpu_percent = no_stat
    /\ state.containers[1].cpu_percent = <<"9", ".", "0", "%">>
    /\ state.containers[1].status = running

----------------------------------------------------------------------------
(* main.py 374-420: the render loop beside the pollers.  The loop reads    *)
(* get_version(), takes get_snapshot() and draws when the version differs  *)
(* from last_version or force_redraw is set, records the version it had    *)
(* read, and waits in getch() for at most the refresh interval.            *)

MaxRenderVersion == 3

\* main.py 374-376: last_version = -1, force_redraw = True; nothing drawn
InitRender ==
    /\ Constructed
    /\ screen = [page_height |-> 1, modal |-> "none", pc |-> "version",
                 current_version |-> 0, last_version |-> -1, force_redraw |-> TRUE,
                 taken_at |-> -1, drawn |-> <<>>, drawn_at |-> -1]
    /\ config = DefaultConfig

render_local ==
    UNCHANGED <<store_vars, now, cache_vars, thread_vars, lock, cache_lock, config,
                worker_vars>>

\* lines 381-384: current_version = get_version(), state_changed
render_get_version ==
    /\ screen.pc = "version"
    /\ screen' = [screen EXCEPT
            !.current_version = version,
            !.pc = IF version # screen.last_version \/ screen.force_redraw
                   THEN "snapshot" ELSE "getch"]
    /\ UNCHANGED snap_vars
    /\ render_local

\* line 385: state = state_mgr.get_snapshot()
render_get_snapshot ==
    /\ screen.pc = "snapshot"
    /\ snapshot' = <<get_snapshot_value(state)>>
    /\ aliased' = shared_kinds
    /\ screen' = [screen EXCEPT !.pc = "draw", !.taken_at = version]
    /\ render_local

\* the draw recording the version the store has when the draw is over
render_draw_reading_version_again ==
    /\ screen.pc = "draw"
    /\ screen' = [screen EXCEPT !.pc = "getch", !.drawn = snapshot,
                                !.drawn_at = screen.taken_at,
                                !.last_version = version,
                                !.force_redraw = FALSE]
    /\ UNCHANGED snap_vars
    /\ render_local

\* lines 406-416: the draw_* calls, doupdate, last_version = current_version,
\* force_redraw = False
render_draw ==
    /\ screen.pc = "draw"
    /\ screen' = [screen EXCEPT !.pc = "getch", !.drawn = snapshot,
                                !.drawn_at = screen.taken_at,
                                !.last_version = screen.current_version,
                                !.force_redraw = FALSE]
    /\ UNCHANGED snap_vars
    /\ render_local

\* lines 418-419: key = stdscr.getch() returns ERR after the refresh
\* interval, continue
render_getch ==
    /\ screen.pc = "getch"
    /\ screen' = [screen EXCEPT !.pc = "version"]
    /\ UNCHANGED snap_vars
    /\ render_local

\* a call of a poller on the store
poller_called(op) ==
    /\ version' <= MaxRenderVersion
    /\ recorded(op)
    /\ UNCHANGED <<now, snap_vars, cache_vars, thread_vars, fg_vars, worker_vars>>

render_loop ==
    \/ render_get_version
    \/ render_get_snapshot
    \/ render_draw
    \/ render_getch

pollers ==
    \/ \E l \in fetched_lists(ContainerPool, "containers") :
            Len(l) = 1 /\ update_containers(l) /\ poller_called("update_containers")
    \/ \E m \in StatPool :
            /\ state.containers # <<>>
            /\ update_container_stats(state.containers[1].id, m[1], m[2])
            /\ poller_called("update_container_stats")
    \/ set_logs(<<"Loading logs...">>) /\ poller_called("set_logs")

NextRender == render_loop \/ pollers

SpecRender == InitRender /\ [][NextRender]_vars

\* curses delivers ERR when the refresh interval is over, and the thread of
\* main keeps running
SpecRenderFair == SpecRender /\ WF_vars(render_loop)

\* what is on the terminal is what get_snapshot would return now
drawn_is_current == screen.drawn = <<get_snapshot_value(state)>>

\* C40: the version the loop records is never greater than the store's
\* version when the snapshot it drew was taken; whenever the loop is at
\* get_version() and the terminal does not show the store's state, the
\* version differs from last_version (or force_redraw is set), so the loop
\* takes a snapshot and draws; and what differs from the terminal is
\* eventually drawn.
C40_RenderLoopMissesNoChange ==
    /\ [](screen.drawn # <<>> => screen.last_version <= screen.drawn_at)
    /\ [](screen.last_version <= version)
    /\ [](screen.pc = "version" /\ ~drawn_is_current
            => version # screen.last_version \/ screen.force_redraw)
    /\ (~drawn_is_current ~> drawn_is_current)

\* a poller changed the store between get_version() and get_snapshot(), and
\* again after the draw: the loop recorded the older version, the terminal
\* shows the first change and the loop is back at get_version()
C40_Witness ==
    /\ screen.pc = "version"
    /\ screen.drawn # <<>>
    /\ screen.last_version < screen.drawn_at
    /\ screen.drawn_at < version
    /\ ~drawn_is_current
    /\ screen.last_version > 0

====
